---- MODULE Spec2Model ----
(***************************************************************************)
(* Model of the pathfinding engine of traffic_planner                      *)
(* (src/src/pathfinding.c): the reachability and cost model                *)
(* calculate_travel_info, the Dijkstra search find_shortest_path, the      *)
(* path assembler stitch_paths, the Held-Karp tour solver solve_tsp and    *)
(* find_sequential_path.                                                   *)
(*                                                                         *)
(* Numbers.  The C code computes in double.  The model computes in         *)
(* integers, in units chosen so that every quantity of the code is an      *)
(* integer and every comparison of the code has the same outcome as in     *)
(* exact arithmetic (floating-point rounding is not modelled):             *)
(*   distance      units of 0.1 km                                         *)
(*   time_hours    units of 1/120000 h  (12000 = lcm of all the speeds)    *)
(*   cost_yuan     units of 0.01 yuan                                      *)
(*   weighted cost units of 1/18000000                                     *)
(*                 (time_hours/150)*tw + (cost_yuan/9000)*cw               *)
(*                   = (timeUnits*tw + 20*costUnits*cw) / 18000000         *)
(* Nodes lie on one meridian; pos is the arc length from a reference       *)
(* point in units of 0.1 km, so that the haversine distance of two nodes   *)
(* is the absolute difference of their positions.                          *)
(***************************************************************************)
EXTENDS Integers, Sequences, FiniteSets, TLC

(***************************************************************************)
(* Bounds of the model.                                                    *)
(***************************************************************************)
MaxNodes == 3
MaxWeight == 1

(***************************************************************************)
(* Program constants.                                                      *)
(***************************************************************************)
NODE_TYPE_LANDMARK == 0
NODE_TYPE_AIRPORT == 1
NODE_TYPE_HSR_STATION == 2

DRIVING == 0
HIGH_SPEED_RAIL == 1
FLIGHT == 2
BUS == 3
TRANSPORT_MODE_COUNT == 4
Modes == 0 .. (TRANSPORT_MODE_COUNT - 1)

\* DBL_MAX, the "infinite cost" sentinel: larger than every cost the model
\* can build.
DBL_MAX == 2000000000

\* Addition of doubles where one operand may be DBL_MAX: DBL_MAX + x rounds
\* to DBL_MAX for every x the program can produce.
FAdd(a, b) == IF a = DBL_MAX \/ b = DBL_MAX THEN DBL_MAX ELSE a + b

\* fault: the speed of FLIGHT is the speed of BUS
speed_kmh_SlowFlight(mode) ==
    CASE mode = DRIVING -> 60
      [] mode = HIGH_SPEED_RAIL -> 250
      [] mode = FLIGHT -> 40
      [] mode = BUS -> 40

\* transport_attrs[mode].speed_kmh
speed_kmh(mode) ==
    CASE mode = DRIVING -> 60
      [] mode = HIGH_SPEED_RAIL -> 250
      [] mode = FLIGHT -> 800
      [] mode = BUS -> 40

\* transport_attrs[mode].cost_per_km, in tenths of a yuan per km
cost_per_km(mode) ==
    CASE mode = DRIVING -> 8
      [] mode = HIGH_SPEED_RAIL -> 4
      [] mode = FLIGHT -> 6
      [] mode = BUS -> 2

Abs(x) == IF x < 0 THEN 0 - x ELSE x

\* Body(e) with e evaluated once: a local variable of the code that is
\* assigned once and read several times
Bind(e, Body(_)) == CHOOSE r \in {Body(x) : x \in {e}} : TRUE

\* calculate_distance for two nodes of one meridian: EARTH_RADIUS_KM * c
\* with c the difference of the latitudes in radians.
calculate_distance(from_node, to_node) == Abs(to_node.pos - from_node.pos)

(***************************************************************************)
(* Reachability and cost model.                                            *)
(***************************************************************************)
Unreachable == [is_reachable |-> FALSE, time_hours |-> 0, cost_yuan |-> 0]

\* fault: the rules for FLIGHT and HIGH_SPEED_RAIL look at the node types
\* only, not at the cities
RuleRejects_TypesOnly(mode, from_node, to_node) ==
    LET is_intra_city == (from_node.city_id = to_node.city_id)
    IN CASE mode = FLIGHT ->
              \/ from_node.type # NODE_TYPE_AIRPORT
              \/ to_node.type # NODE_TYPE_AIRPORT
         [] mode = HIGH_SPEED_RAIL ->
              \/ from_node.type # NODE_TYPE_HSR_STATION
              \/ to_node.type # NODE_TYPE_HSR_STATION
         [] mode \in {DRIVING, BUS} ->
              /\ is_intra_city
              /\ from_node.type # NODE_TYPE_LANDMARK
              /\ from_node.type = to_node.type
         [] OTHER -> TRUE

\* the mode rules of the switch statement: TRUE when the function returns
\* early with is_reachable = 0
RuleRejects(mode, from_node, to_node) ==
    LET is_intra_city == (from_node.city_id = to_node.city_id)
    IN CASE mode = FLIGHT ->
              \/ is_intra_city
              \/ from_node.type # NODE_TYPE_AIRPORT
              \/ to_node.type # NODE_TYPE_AIRPORT
         [] mode = HIGH_SPEED_RAIL ->
              \/ is_intra_city
              \/ from_node.type # NODE_TYPE_HSR_STATION
              \/ to_node.type # NODE_TYPE_HSR_STATION
         [] mode \in {DRIVING, BUS} ->
              /\ is_intra_city
              /\ from_node.type # NODE_TYPE_LANDMARK
              /\ from_node.type = to_node.type
         [] OTHER -> TRUE

calculate_travel_info(distance_km, mode, from_node, to_node) ==
    LET is_intra_city == (from_node.city_id = to_node.city_id)
    IN IF RuleRejects(mode, from_node, to_node)
       THEN Unreachable
       ELSE IF is_intra_city
            THEN IF mode = DRIVING
                 THEN [is_reachable |-> TRUE,
                       time_hours |-> (distance_km * 12000) \div 30,
                       cost_yuan |-> distance_km * 15]
                 ELSE [is_reachable |-> TRUE,
                       time_hours |-> (distance_km * 12000) \div 25,
                       cost_yuan |-> distance_km * 3]
            ELSE [is_reachable |-> TRUE,
                  time_hours |-> (distance_km * 12000) \div speed_kmh(mode),
                  cost_yuan |-> distance_km * cost_per_km(mode)]

\* fault: the two weights are applied to the wrong terms
WeightedCost_Swapped(time_hours, cost_yuan, time_weight, cost_weight) ==
    time_hours * cost_weight + 20 * cost_yuan * time_weight

\* normalized_time * time_weight + normalized_cost * cost_weight
WeightedCost(time_hours, cost_yuan, time_weight, cost_weight) ==
    time_hours * time_weight + 20 * cost_yuan * cost_weight

(***************************************************************************)
(* RoutePath values.  A RoutePath* is a record; null = TRUE is the NULL    *)
(* pointer.  segs is the linked list segments_head, first segment first.   *)
(***************************************************************************)
NullPath ==
    [null |-> TRUE, segs |-> << >>, segment_count |-> 0,
     total_time |-> 0, total_cost |-> 0, total_distance |-> 0]

\* calloc(1, sizeof(RoutePath))
EmptyPath ==
    [null |-> FALSE, segs |-> << >>, segment_count |-> 0,
     total_time |-> 0, total_cost |-> 0, total_distance |-> 0]

(***************************************************************************)
(* find_shortest_path.                                                     *)
(***************************************************************************)
NodeCount(g) == Len(g)
NodeIds(g) == 0 .. (Len(g) - 1)
NodeAt(g, id) == g[id + 1]

ValidIds(g, start_node_id, end_node_id) ==
    ~ (\/ start_node_id < 0
       \/ start_node_id >= NodeCount(g)
       \/ end_node_id < 0
       \/ end_node_id >= NodeCount(g))

\* the arrays dijkstra_nodes and visited after initialisation
DijkstraInit(g, start_node_id) ==
    [nodes |-> [j \in NodeIds(g) |->
                  [cost |-> IF j = start_node_id THEN 0 ELSE DBL_MAX,
                   predecessor_node_id |-> -1,
                   predecessor_mode |-> -1]],
     visited |-> [j \in NodeIds(g) |-> FALSE]]

\* fault: the selection takes the first unvisited node of finite cost, not
\* the one of minimum cost
SelectMin_FirstFinite(g, d) ==
    LET cand == {j \in NodeIds(g) :
                    ~ d.visited[j] /\ d.nodes[j].cost < DBL_MAX}
    IN IF cand = {} THEN -1
       ELSE CHOOSE j \in cand : \A k \in cand : j <= k

\* step 1 of the main loop: the first unvisited node of minimum cost,
\* -1 when every unvisited node has cost DBL_MAX
SelectMin(g, d) ==
    LET cand == {j \in NodeIds(g) :
                    ~ d.visited[j] /\ d.nodes[j].cost < DBL_MAX}
    IN IF cand = {} THEN -1
       ELSE CHOOSE j \in cand :
               \A k \in cand :
                  \/ d.nodes[j].cost < d.nodes[k].cost
                  \/ (d.nodes[j].cost = d.nodes[k].cost /\ j <= k)

\* fault: once a mode from u was taken for v, no later mode replaces it
TryMode_KeepsFirst(entry, mode_idx, travel, u, ucost, w) ==
    IF /\ travel.is_reachable
       /\ entry.predecessor_node_id # u
       /\ ucost + WeightedCost(travel.time_hours, travel.cost_yuan,
                               w.time_weight, w.cost_weight) < entry.cost
    THEN [cost |-> ucost + WeightedCost(travel.time_hours, travel.cost_yuan,
                                        w.time_weight, w.cost_weight),
          predecessor_node_id |-> u,
          predecessor_mode |-> mode_idx]
    ELSE entry

\* the body of the loop over mode_idx: entry is dijkstra_nodes[v], ucost is
\* dijkstra_nodes[u].cost
TryMode(entry, mode_idx, travel, u, ucost, w) ==
    IF /\ travel.is_reachable
       /\ ucost + WeightedCost(travel.time_hours, travel.cost_yuan,
                               w.time_weight, w.cost_weight) < entry.cost
    THEN [cost |-> ucost + WeightedCost(travel.time_hours, travel.cost_yuan,
                                        w.time_weight, w.cost_weight),
          predecessor_node_id |-> u,
          predecessor_mode |-> mode_idx]
    ELSE entry

\* the loop over mode_idx for one pair (u, v)
RECURSIVE RelaxModes(_, _, _, _, _, _, _)
RelaxModes(entry, mode_idx, g, d, u, v, w) ==
    IF mode_idx >= TRANSPORT_MODE_COUNT THEN entry
    ELSE Bind(TryMode(entry, mode_idx,
                      calculate_travel_info(
                         calculate_distance(NodeAt(g, u), NodeAt(g, v)),
                         mode_idx, NodeAt(g, u), NodeAt(g, v)),
                      u, d.nodes[u].cost, w),
              LAMBDA next : RelaxModes(next, mode_idx + 1, g, d, u, v, w))

\* fault: the filter skips no pair of distinct nodes
TooClose_OnlySamePlace(distance) == distance <= 0

\* fault: the filter written with < for <=
TooClose_Strict(distance) == distance < 1

\* "if (distance <= 0.1) continue": the pairs the search does not relax
TooClose(distance) == distance <= 1

\* fault: u is not marked visited
Relax_NoMark(g, d, u, w) ==
    [d EXCEPT !.nodes =
       [v \in NodeIds(g) |->
          IF d.visited[v] THEN d.nodes[v]
          ELSE IF TooClose(calculate_distance(NodeAt(g, u), NodeAt(g, v)))
               THEN d.nodes[v]
               ELSE RelaxModes(d.nodes[v], 0, g, d, u, v, w)]]

\* step 2 of the main loop: relax every unvisited v through u
Relax(g, d, u, w) ==
    LET dv == [d EXCEPT !.visited[u] = TRUE]
    IN [dv EXCEPT !.nodes =
          [v \in NodeIds(g) |->
             IF dv.visited[v] THEN dv.nodes[v]
             ELSE IF TooClose(calculate_distance(NodeAt(g, u), NodeAt(g, v)))
                  THEN dv.nodes[v]
                  ELSE RelaxModes(dv.nodes[v], 0, g, dv, u, v, w)]]

\* fault: the loop does not stop when the target is selected
LoopBreaks_NoTarget(u, end_node_id) == u = -1

\* "if (u == -1 || u == end_node_id) break"
LoopBreaks(u, end_node_id) == u = -1 \/ u = end_node_id

\* the main loop from iteration i on
RECURSIVE DijkstraRun(_, _, _, _, _)
DijkstraRun(g, d, i, end_node_id, w) ==
    IF i >= NodeCount(g) THEN d
    ELSE Bind(SelectMin(g, d),
              LAMBDA u :
                 IF LoopBreaks(u, end_node_id) THEN d
                 ELSE Bind(Relax(g, d, u, w),
                           LAMBDA dd :
                              DijkstraRun(g, dd, i + 1, end_node_id, w)))

\* fault: the reconstruction takes time and cost from transport_attrs for
\* every segment, also inside a city
MakeSegment_TableRates(g, d, current_node_id) ==
    LET pred_node_id == d.nodes[current_node_id].predecessor_node_id
        dist == calculate_distance(NodeAt(g, pred_node_id),
                                   NodeAt(g, current_node_id))
        mode == d.nodes[current_node_id].predecessor_mode
    IN [from_node_id |-> pred_node_id,
        to_node_id |-> current_node_id,
        mode |-> mode,
        distance_km |-> dist,
        time_hours |-> (dist * 12000) \div speed_kmh(mode),
        cost_yuan |-> dist * cost_per_km(mode)]

\* one segment of the reconstruction, for the edge into current_node_id
MakeSegment(g, d, current_node_id) ==
    LET pred_node_id == d.nodes[current_node_id].predecessor_node_id
        from == NodeAt(g, pred_node_id)
        to == NodeAt(g, current_node_id)
        dist == calculate_distance(from, to)
        travel == calculate_travel_info(
                     dist, d.nodes[current_node_id].predecessor_mode, from, to)
    IN [from_node_id |-> pred_node_id,
        to_node_id |-> current_node_id,
        mode |-> d.nodes[current_node_id].predecessor_mode,
        distance_km |-> dist,
        time_hours |-> travel.time_hours,
        cost_yuan |-> travel.cost_yuan]

\* fault: the segment is linked at the tail of the list
PushSegment_AtTail(path, segment) ==
    [path EXCEPT !.segs = @ \o << segment >>,
                 !.total_distance = @ + segment.distance_km,
                 !.total_time = @ + segment.time_hours,
                 !.total_cost = @ + segment.cost_yuan,
                 !.segment_count = @ + 1]

\* head insertion of a segment, with the totals
PushSegment(path, segment) ==
    [path EXCEPT !.segs = << segment >> \o @,
                 !.total_distance = @ + segment.distance_km,
                 !.total_time = @ + segment.time_hours,
                 !.total_cost = @ + segment.cost_yuan,
                 !.segment_count = @ + 1]

\* the while loop that walks the predecessor links back from end_node_id
RECURSIVE Reconstruct(_, _, _, _, _)
Reconstruct(g, d, path, current_node_id, start_node_id) ==
    IF current_node_id # start_node_id
       /\ d.nodes[current_node_id].predecessor_node_id # -1
    THEN Reconstruct(g, d, PushSegment(path, MakeSegment(g, d, current_node_id)),
                     d.nodes[current_node_id].predecessor_node_id, start_node_id)
    ELSE path

\* fault: the test for "no path" forgets the case start = end
BuildResult_NoSameNode(g, d, start_node_id, end_node_id) ==
    IF d.nodes[end_node_id].predecessor_node_id = -1
    THEN NullPath
    ELSE Reconstruct(g, d, EmptyPath, end_node_id, start_node_id)

\* the part of find_shortest_path after the main loop
BuildResult(g, d, start_node_id, end_node_id) ==
    IF d.nodes[end_node_id].predecessor_node_id = -1
       /\ start_node_id # end_node_id
    THEN NullPath
    ELSE Reconstruct(g, d, EmptyPath, end_node_id, start_node_id)

\* fault: a shortcut for start = end taken before the ids are validated
fsp_SameFirst(g, start_node_id, end_node_id, time_weight, cost_weight) ==
    IF start_node_id = end_node_id THEN EmptyPath
    ELSE IF ~ ValidIds(g, start_node_id, end_node_id) THEN NullPath
    ELSE Bind(DijkstraRun(g, DijkstraInit(g, start_node_id), 0, end_node_id,
                          [time_weight |-> time_weight,
                           cost_weight |-> cost_weight]),
              LAMBDA d : BuildResult(g, d, start_node_id, end_node_id))

find_shortest_path(g, start_node_id, end_node_id, time_weight, cost_weight) ==
    IF ~ ValidIds(g, start_node_id, end_node_id) THEN NullPath
    ELSE Bind(DijkstraRun(g, DijkstraInit(g, start_node_id), 0, end_node_id,
                          [time_weight |-> time_weight,
                           cost_weight |-> cost_weight]),
              LAMBDA d : BuildResult(g, d, start_node_id, end_node_id))

(***************************************************************************)
(* free_route_path and stitch_paths.  The operators return the value of    *)
(* main_path after the call; leg_to_prepend is released by the call.       *)
(***************************************************************************)
\* fault: the splice forgets to add the leg's total_time
stitch_paths_NoTime(main_path, leg_to_prepend) ==
    IF leg_to_prepend.null \/ leg_to_prepend.segs = << >>
    THEN main_path
    ELSE [main_path EXCEPT
            !.segs = leg_to_prepend.segs \o @,
            !.segment_count = @ + leg_to_prepend.segment_count,
            !.total_cost = @ + leg_to_prepend.total_cost,
            !.total_distance = @ + leg_to_prepend.total_distance]

\* fault: the splice forgets to add the leg's segment_count
stitch_paths_NoCount(main_path, leg_to_prepend) ==
    IF leg_to_prepend.null \/ leg_to_prepend.segs = << >>
    THEN main_path
    ELSE [main_path EXCEPT
            !.segs = leg_to_prepend.segs \o @,
            !.total_cost = @ + leg_to_prepend.total_cost,
            !.total_time = @ + leg_to_prepend.total_time,
            !.total_distance = @ + leg_to_prepend.total_distance]

\* fault: the leg is linked behind the main route instead of in front
stitch_paths_Behind(main_path, leg_to_prepend) ==
    IF leg_to_prepend.null \/ leg_to_prepend.segs = << >>
    THEN main_path
    ELSE [main_path EXCEPT
            !.segs = @ \o leg_to_prepend.segs,
            !.segment_count = @ + leg_to_prepend.segment_count,
            !.total_cost = @ + leg_to_prepend.total_cost,
            !.total_time = @ + leg_to_prepend.total_time,
            !.total_distance = @ + leg_to_prepend.total_distance]

stitch_paths(main_path, leg_to_prepend) ==
    IF leg_to_prepend.null \/ leg_to_prepend.segs = << >>
    THEN main_path
    ELSE [main_path EXCEPT
            !.segs = leg_to_prepend.segs \o @,
            !.segment_count = @ + leg_to_prepend.segment_count,
            !.total_cost = @ + leg_to_prepend.total_cost,
            !.total_time = @ + leg_to_prepend.total_time,
            !.total_distance = @ + leg_to_prepend.total_distance]

(***************************************************************************)
(* solve_tsp.  node_ids is the list node_ids_to_visit as a sequence; the   *)
(* code's index i of the list is element i + 1 of the sequence.            *)
(***************************************************************************)
TSP_MAX_NODES == 10

IdAt(node_ids, i) == node_ids[i + 1]

RECURSIVE Pow2(_)
Pow2(k) == IF k = 0 THEN 1 ELSE 2 * Pow2(k - 1)

\* mask & (1 << v)
InMask(mask, v) == (mask \div Pow2(v)) % 2 = 1

\* fault: the upper guard is off by one
TspRejects_OffByOne(num_nodes) ==
    num_nodes <= 1 \/ num_nodes > TSP_MAX_NODES + 1

\* the guards at the head of solve_tsp
TspRejects(num_nodes) == num_nodes <= 1 \/ num_nodes > TSP_MAX_NODES

\* fault: a route of zero distance gets its weighted cost, not DBL_MAX
CostEntry_NoDistanceTest(g, node_ids, i, j, time_weight, cost_weight) ==
    Bind(find_shortest_path(g, IdAt(node_ids, i), IdAt(node_ids, j),
                            time_weight, cost_weight),
         LAMBDA p :
            IF ~ p.null
            THEN WeightedCost(p.total_time, p.total_cost,
                              time_weight, cost_weight)
            ELSE DBL_MAX)

\* one entry of the cost matrix, i # j
CostEntry(g, node_ids, i, j, time_weight, cost_weight) ==
    Bind(find_shortest_path(g, IdAt(node_ids, i), IdAt(node_ids, j),
                            time_weight, cost_weight),
         LAMBDA p :
            IF ~ p.null /\ p.total_distance > 0
            THEN WeightedCost(p.total_time, p.total_cost,
                              time_weight, cost_weight)
            ELSE DBL_MAX)

\* step 1: the cost matrix
CostMatrix(g, node_ids, num_nodes, time_weight, cost_weight) ==
    [i \in 0 .. (num_nodes - 1) |->
       [j \in 0 .. (num_nodes - 1) |->
          IF i = j THEN 0
          ELSE CostEntry(g, node_ids, i, j, time_weight, cost_weight)]]

\* dp_table and path_table after allocation and "dp_table[1][0] = 0";
\* path_table is not initialised by the code and is read only where the
\* relaxation has written it (-1 stands for the unwritten cells)
TablesInit(num_nodes) ==
    [dp |-> [mask \in 0 .. (Pow2(num_nodes) - 1) |->
               [k \in 0 .. (num_nodes - 1) |->
                  IF mask = 1 /\ k = 0 THEN 0 ELSE DBL_MAX]],
     path |-> [mask \in 0 .. (Pow2(num_nodes) - 1) |->
                 [k \in 0 .. (num_nodes - 1) |-> -1]],
     steps |-> 0]

\* fault: the relaxation overwrites the cell without comparing
RelaxTour_NoCompare(t, mask, u, v, cost_matrix) ==
    IF InMask(mask, v) THEN t
    ELSE LET next_mask == mask + Pow2(v)
             through == FAdd(t.dp[mask][u], cost_matrix[u][v])
         IN [t EXCEPT !.dp[next_mask][v] = through,
                      !.path[next_mask][v] = u,
                      !.steps = @ + 1]

\* the body of the loop over v
RelaxTour(t, mask, u, v, cost_matrix) ==
    IF InMask(mask, v) THEN t
    ELSE LET next_mask == mask + Pow2(v)
             through == FAdd(t.dp[mask][u], cost_matrix[u][v])
         IN IF through < t.dp[next_mask][v]
            THEN [t EXCEPT !.dp[next_mask][v] = through,
                           !.path[next_mask][v] = u,
                           !.steps = @ + 1]
            ELSE [t EXCEPT !.steps = @ + 1]

RECURSIVE LoopV(_, _, _, _, _, _)
LoopV(t, mask, u, v, num_nodes, cost_matrix) ==
    IF v >= num_nodes THEN t
    ELSE Bind(RelaxTour(t, mask, u, v, cost_matrix),
              LAMBDA tt : LoopV(tt, mask, u, v + 1, num_nodes, cost_matrix))

RECURSIVE LoopU(_, _, _, _, _)
LoopU(t, mask, u, num_nodes, cost_matrix) ==
    IF u >= num_nodes THEN t
    ELSE IF ~ InMask(mask, u) \/ t.dp[mask][u] = DBL_MAX
         THEN LoopU(t, mask, u + 1, num_nodes, cost_matrix)
         ELSE Bind(LoopV(t, mask, u, 0, num_nodes, cost_matrix),
                   LAMBDA tt : LoopU(tt, mask, u + 1, num_nodes, cost_matrix))

RECURSIVE LoopMask(_, _, _, _)
LoopMask(t, mask, num_nodes, cost_matrix) ==
    IF mask >= Pow2(num_nodes) THEN t
    ELSE Bind(LoopU(t, mask, 0, num_nodes, cost_matrix),
              LAMBDA tt : LoopMask(tt, mask + 1, num_nodes, cost_matrix))

\* step 2: the dynamic program
HeldKarp(num_nodes, cost_matrix) ==
    LoopMask(TablesInit(num_nodes), 1, num_nodes, cost_matrix)

\* step 3: the loop over i that chooses tour_end_city; best is the record
\* of min_tour_cost and tour_end_city
RECURSIVE TourEnd(_, _, _, _, _)
TourEnd(best, i, t, num_nodes, cost_matrix) ==
    IF i >= num_nodes THEN best
    ELSE LET final_mask == Pow2(num_nodes) - 1
             total == FAdd(t.dp[final_mask][i], cost_matrix[i][0])
             next == IF /\ t.dp[final_mask][i] # DBL_MAX
                        /\ cost_matrix[i][0] # DBL_MAX
                        /\ total < best.min_tour_cost
                     THEN [min_tour_cost |-> total, tour_end_city |-> i]
                     ELSE best
         IN TourEnd(next, i + 1, t, num_nodes, cost_matrix)

\* fault: the loop over the closing city starts at 2
ChooseTourEnd_FromTwo(t, num_nodes, cost_matrix) ==
    TourEnd([min_tour_cost |-> DBL_MAX, tour_end_city |-> -1], 2, t,
            num_nodes, cost_matrix)

ChooseTourEnd(t, num_nodes, cost_matrix) ==
    TourEnd([min_tour_cost |-> DBL_MAX, tour_end_city |-> -1], 1, t,
            num_nodes, cost_matrix)

\* step 4: the while loop that walks path_table back from tour_end_city.
\* r is the record of final_path, the list positions visited so far (in
\* visiting order) and the number of find_shortest_path calls made.
RECURSIVE WalkBack(_, _, _, _, _, _, _)
WalkBack(r, current_city_idx, current_mask, t, g, node_ids, w) ==
    IF current_city_idx = 0 THEN r
    ELSE LET prev_city_idx == t.path[current_mask][current_city_idx]
         IN Bind([final_path |->
                     Bind(find_shortest_path(g, IdAt(node_ids, prev_city_idx),
                                             IdAt(node_ids, current_city_idx),
                                             w.time_weight, w.cost_weight),
                          LAMBDA leg : stitch_paths(r.final_path, leg)),
                  order |-> << prev_city_idx >> \o r.order,
                  fsp_calls |-> r.fsp_calls + 1],
                 LAMBDA rr :
                    WalkBack(rr, prev_city_idx,
                             current_mask - Pow2(current_city_idx),
                             t, g, node_ids, w))

\* fault: the leg from tour_end_city back to the first stop is left out
RebuildTour_NoClosingLeg(t, tour_end_city, g, node_ids, num_nodes, w) ==
    WalkBack([final_path |-> EmptyPath,
              order |-> << tour_end_city >>,
              fsp_calls |-> 0],
             tour_end_city, Pow2(num_nodes) - 1, t, g, node_ids, w)

RebuildTour(t, tour_end_city, g, node_ids, num_nodes, w) ==
    Bind([final_path |->
             Bind(find_shortest_path(g, IdAt(node_ids, tour_end_city),
                                     IdAt(node_ids, 0),
                                     w.time_weight, w.cost_weight),
                  LAMBDA closing : stitch_paths(EmptyPath, closing)),
          order |-> << tour_end_city >>,
          fsp_calls |-> 1],
         LAMBDA r :
            WalkBack(r, tour_end_city, Pow2(num_nodes) - 1, t, g, node_ids, w))

(***************************************************************************)
(* find_sequential_path.                                                   *)
(***************************************************************************)
\* fault: the leg is linked in front of final_path
AppendLeg_AtFront(final_path, leg_path) ==
    [final_path EXCEPT
       !.segs = leg_path.segs \o @,
       !.segment_count = @ + leg_path.segment_count,
       !.total_cost = @ + leg_path.total_cost,
       !.total_distance = @ + leg_path.total_distance,
       !.total_time = @ + leg_path.total_time]

\* appending a leg at the tail of final_path, with the totals
AppendLeg(final_path, leg_path) ==
    [final_path EXCEPT
       !.segs = @ \o leg_path.segs,
       !.segment_count = @ + leg_path.segment_count,
       !.total_cost = @ + leg_path.total_cost,
       !.total_distance = @ + leg_path.total_distance,
       !.total_time = @ + leg_path.total_time]

\* the for loop from leg i on
RECURSIVE SequentialLegs(_, _, _, _, _, _)
SequentialLegs(final_path, i, g, node_ids, num_nodes, w) ==
    IF i >= num_nodes - 1 THEN final_path
    ELSE Bind(find_shortest_path(g, IdAt(node_ids, i), IdAt(node_ids, i + 1),
                                 w.time_weight, w.cost_weight),
              LAMBDA leg_path :
                 IF leg_path.null \/ leg_path.segs = << >>
                 THEN NullPath
                 ELSE Bind(AppendLeg(final_path, leg_path),
                           LAMBDA joined :
                              SequentialLegs(joined, i + 1, g, node_ids,
                                             num_nodes, w)))

find_sequential_path(g, node_ids, num_nodes, time_weight, cost_weight) ==
    IF num_nodes < 2 THEN NullPath
    ELSE SequentialLegs(EmptyPath, 0, g, node_ids, num_nodes,
                        [time_weight |-> time_weight,
                         cost_weight |-> cost_weight])

(***************************************************************************)
(* The heap of RoutePath containers and PathSegment nodes.  A RoutePath*   *)
(* is 0 (NULL) or the index of a container in paths; every PathSegment     *)
(* carries the address addr it was allocated at.  A container stays in     *)
(* paths after it is freed, as the memory of a freed block stays where it  *)
(* was; freed_paths and freed_segs are the blocks passed to free, and      *)
(* double_free records a block passed to free a second time.               *)
(***************************************************************************)
EmptyHeap ==
    [paths |-> << >>, freed_paths |-> {}, freed_segs |-> {},
     segs_made |-> 0, double_free |-> FALSE]

\* the segment nodes of a new route: the k-th malloc(sizeof(PathSegment))
\* after segs_made earlier ones
WithAddresses(route, segs_made) ==
    [route EXCEPT
       !.segs = [k \in 1 .. Len(route.segs) |->
                   [addr |-> segs_made + k,
                    from_node_id |-> route.segs[k].from_node_id,
                    to_node_id |-> route.segs[k].to_node_id,
                    mode |-> route.segs[k].mode,
                    distance_km |-> route.segs[k].distance_km,
                    time_hours |-> route.segs[k].time_hours,
                    cost_yuan |-> route.segs[k].cost_yuan]]]

\* the allocations of a call that returns route: nothing for NULL, else
\* the container (calloc) and one node per segment (malloc)
HeapAlloc(h, route) ==
    IF route.null THEN [heap |-> h, ptr |-> 0]
    ELSE [heap |-> [h EXCEPT
                      !.paths = Append(@, WithAddresses(route, h.segs_made)),
                      !.segs_made = @ + Len(route.segs)],
          ptr |-> Len(h.paths) + 1]

\* *path, NullPath for path = NULL
Deref(h, path) == IF path = 0 THEN NullPath ELSE h.paths[path]

SegAddrs(route) == {route.segs[k].addr : k \in 1 .. Len(route.segs)}

free_route_path(h, path) ==
    IF path = 0 THEN h
    ELSE [h EXCEPT
            !.double_free = \/ @
                            \/ path \in h.freed_paths
                            \/ SegAddrs(h.paths[path]) \cap h.freed_segs # {},
            !.freed_segs = @ \cup SegAddrs(h.paths[path]),
            !.freed_paths = @ \cup {path}]

\* fault: the donor keeps its segments_head when it is released
StitchHeap_KeepsHead(h, main_path, leg_to_prepend) ==
    free_route_path(
       [h EXCEPT !.paths[main_path] =
                    stitch_paths(@, Deref(h, leg_to_prepend))],
       leg_to_prepend)

\* fault: the early return for a leg without segments forgets to release it
StitchHeap_EarlyNoFree(h, main_path, leg_to_prepend) ==
    IF Deref(h, leg_to_prepend).segs = << >> THEN h
    ELSE free_route_path(
            [h EXCEPT
               !.paths = [p \in DOMAIN h.paths |->
                            IF p = main_path
                            THEN stitch_paths(h.paths[p],
                                              Deref(h, leg_to_prepend))
                            ELSE IF p = leg_to_prepend
                                 THEN [h.paths[p] EXCEPT !.segs = << >>]
                                 ELSE h.paths[p]]],
            leg_to_prepend)

\* stitch_paths on the heap: main_path takes the segments and the totals,
\* leg_to_prepend->segments_head = NULL when segments moved, and the donor
\* is released
StitchHeap(h, main_path, leg_to_prepend) ==
    free_route_path(
       [h EXCEPT
          !.paths = [p \in DOMAIN h.paths |->
                       IF p = main_path
                       THEN stitch_paths(h.paths[p], Deref(h, leg_to_prepend))
                       ELSE IF p = leg_to_prepend
                            THEN [h.paths[p] EXCEPT !.segs = << >>]
                            ELSE h.paths[p]]],
       leg_to_prepend)

(***************************************************************************)
(* The state machine.  The driver (src/src/main.c) owns the graph, calls   *)
(* one engine operation at a time and releases the returned route.         *)
(***************************************************************************)
VARIABLES
    nodes,   \* the graph: the node array of the TrafficNetwork
    pc,      \* where the driver is: "idle", inside solve_tsp, or "returned"
    call,    \* the operation called last and its arguments
    work,    \* the buffers allocated by a solve_tsp call in progress
    ret,     \* the RoutePath* returned by the last call
    stats,   \* what the last call did, see NoStats
    held     \* routes returned by earlier calls that the caller still owns

vars == << nodes, pc, call, work, ret, stats, held >>

MaxStops == 4
MaxHeld == 1
HoldNodes == 2

Weights == 0 .. MaxWeight

NoCall == [op |-> "none", ids |-> << >>, time_weight |-> 0, cost_weight |-> 0]
NoWork == [allocated |-> {}]

\* order: the list positions in the order solve_tsp visits them;
\* cost_matrix: the cost matrix the call built;
\* fsp_calls: find_shortest_path invocations made by the call;
\* dp_steps: executions of the body of the innermost DP loop;
\* leaked: working buffers still allocated when the call returned
NoStats == [order |-> << >>, fsp_calls |-> 0, dp_steps |-> 0, leaked |-> {},
            cost_matrix |-> << >>]

TspBuffers == {"node_ids", "cost_matrix", "dp_table", "path_table"}

\* the graphs of the shortest-path specification: up to MaxNodes nodes at
\* different sites among four (three in city 1, two of them 0.1 km apart,
\* and one in city 2); a node is of any type, at the two sites 0.1 km apart
\* a landmark or an airport
Sites == {[city_id |-> 1, pos |-> 0], [city_id |-> 1, pos |-> 1],
          [city_id |-> 1, pos |-> 300], [city_id |-> 2, pos |-> 900]}
NodeTypes == {NODE_TYPE_LANDMARK, NODE_TYPE_AIRPORT, NODE_TYPE_HSR_STATION}
NodeChoices ==
    {[city_id |-> s.city_id, pos |-> s.pos, type |-> t] :
        s \in Sites,
        t \in NodeTypes} \ {[city_id |-> 1, pos |-> p,
                             type |-> NODE_TYPE_HSR_STATION] : p \in {0, 1}}
PathGraphs ==
    {g \in UNION {[1 .. n -> NodeChoices] : n \in 1 .. MaxNodes} :
        \A i, j \in 1 .. Len(g) : i # j => g[i].pos # g[j].pos}

\* the graphs of the tour specification: four nodes at four sites pairwise
\* more than 0.1 km apart, two per city, each a landmark or an airport
TourSites == << [city_id |-> 1, pos |-> 0], [city_id |-> 1, pos |-> 300],
                [city_id |-> 2, pos |-> 900], [city_id |-> 2, pos |-> 1300] >>
TourTypes == {NODE_TYPE_LANDMARK, NODE_TYPE_AIRPORT}
TourGraphs ==
    {[i \in 1 .. Len(TourSites) |->
        [city_id |-> TourSites[i].city_id, pos |-> TourSites[i].pos,
         type |-> ty[i]]] : ty \in [1 .. Len(TourSites) -> TourTypes]}

\* the id lists passed to solve_tsp and find_sequential_path: every list of
\* up to MaxStops node ids, and one list longer than TSP_MAX_NODES
StopLists(g) == UNION {[1 .. n -> NodeIds(g)] : n \in 0 .. MaxStops}
LongList(g) == [i \in 1 .. (TSP_MAX_NODES + 1) |-> (i - 1) % NodeCount(g)]

Start ==
    /\ pc = "idle"
    /\ call = NoCall
    /\ work = NoWork
    /\ ret = NullPath
    /\ stats = NoStats
    /\ held = << >>

\* the graphs of the specification in which the caller keeps routes: up to
\* HoldNodes landmarks at the three sites that are more than 0.1 km apart
HoldChoices ==
    {[city_id |-> s.city_id, pos |-> s.pos, type |-> NODE_TYPE_LANDMARK] :
        s \in {x \in Sites : x.pos # 1}}
HoldGraphs == UNION {[1 .. n -> HoldChoices] : n \in 1 .. HoldNodes}

Init == nodes \in PathGraphs /\ Start
InitHold == nodes \in HoldGraphs /\ Start
InitTour == nodes \in TourGraphs /\ Start

\* main.c: path = find_shortest_path(network, start, end, time_w, cost_w),
\* reached only with the ids of two nodes of the network
CallShortestPath ==
    /\ pc = "idle"
    /\ \E s \in NodeIds(nodes), e \in NodeIds(nodes),
          tw \in Weights, cw \in Weights :
          /\ call' = [op |-> "fsp", ids |-> << s, e >>,
                      time_weight |-> tw, cost_weight |-> cw]
          /\ ret' = find_shortest_path(nodes, s, e, tw, cw)
    /\ pc' = "returned"
    /\ stats' = NoStats
    /\ UNCHANGED << nodes, work, held >>

\* find_shortest_path called through pathfinding.h with a start or end id
\* that is below 0 or not below node_count
CallShortestPathOutOfRange ==
    /\ pc = "idle"
    /\ \E s \in -1 .. NodeCount(nodes), e \in -1 .. NodeCount(nodes),
          tw \in Weights, cw \in Weights :
          /\ ~ ValidIds(nodes, s, e)
          /\ call' = [op |-> "fsp", ids |-> << s, e >>,
                      time_weight |-> tw, cost_weight |-> cw]
          /\ ret' = find_shortest_path(nodes, s, e, tw, cw)
    /\ pc' = "returned"
    /\ stats' = NoStats
    /\ UNCHANGED << nodes, work, held >>

\* solve_tsp up to the copy of the id list: the guards on num_nodes
SolveTspBegin ==
    /\ pc = "idle"
    /\ \E ids \in StopLists(nodes) \cup {LongList(nodes)},
          tw \in Weights, cw \in Weights :
          /\ call' = [op |-> "tsp", ids |-> ids,
                      time_weight |-> tw, cost_weight |-> cw]
          /\ IF TspRejects(Len(ids))
             THEN /\ pc' = "returned"
                  /\ work' = NoWork
             ELSE /\ pc' = "tsp_run"
                  /\ work' = [allocated |-> {"node_ids"}]
    /\ ret' = NullPath
    /\ stats' = NoStats
    /\ UNCHANGED << nodes, held >>

\* the result of solve_tsp when no closing city is found:
\* "if (tour_end_city == -1) return NULL" releases none of the buffers
TspNotFound(cm, t, num_nodes) ==
    [ret |-> NullPath,
     stats |-> [order |-> << >>,
                fsp_calls |-> num_nodes * (num_nodes - 1),
                dp_steps |-> t.steps,
                leaked |-> TspBuffers,
                cost_matrix |-> cm]]

\* the result of solve_tsp after step 4, r the record built by RebuildTour;
\* every buffer is released before the return
TspFound(cm, t, r, num_nodes) ==
    [ret |-> r.final_path,
     stats |-> [order |-> r.order,
                fsp_calls |-> num_nodes * (num_nodes - 1) + r.fsp_calls,
                dp_steps |-> t.steps,
                leaked |-> {},
                cost_matrix |-> cm]]

\* steps 1 to 4 of solve_tsp
SolveTspRun ==
    /\ pc = "tsp_run"
    /\ \E cm \in {CostMatrix(nodes, call.ids, Len(call.ids),
                             call.time_weight, call.cost_weight)} :
       \E t \in {HeldKarp(Len(call.ids), cm)} :
       \E best \in {ChooseTourEnd(t, Len(call.ids), cm)} :
       \E out \in {IF best.tour_end_city = -1
                   THEN TspNotFound(cm, t, Len(call.ids))
                   ELSE TspFound(cm, t,
                           RebuildTour(t, best.tour_end_city, nodes, call.ids,
                                       Len(call.ids),
                                       [time_weight |-> call.time_weight,
                                        cost_weight |-> call.cost_weight]),
                           Len(call.ids))} :
          /\ ret' = out.ret
          /\ stats' = out.stats
    /\ pc' = "returned"
    /\ work' = NoWork
    /\ UNCHANGED << nodes, call, held >>

\* main.c: path = find_sequential_path(network, node_ids, count, ...)
CallSequentialPath ==
    /\ pc = "idle"
    /\ \E ids \in StopLists(nodes), tw \in Weights, cw \in Weights :
          /\ call' = [op |-> "seq", ids |-> ids,
                      time_weight |-> tw, cost_weight |-> cw]
          /\ ret' = find_sequential_path(nodes, ids, Len(ids), tw, cw)
    /\ pc' = "returned"
    /\ stats' = NoStats
    /\ UNCHANGED << nodes, work, held >>

\* main.c: free_route_path(path) after the route was shown
ReleasePath ==
    /\ pc = "returned"
    /\ pc' = "idle"
    /\ call' = NoCall
    /\ ret' = NullPath
    /\ stats' = NoStats
    /\ UNCHANGED << nodes, work, held >>

\* the caller keeps the returned route instead of releasing it at once
\* (pathfinding.h: the caller owns the route until free_route_path)
KeepPath ==
    /\ pc = "returned"
    /\ ~ ret.null
    /\ Len(held) < MaxHeld
    /\ held' = Append(held, ret)
    /\ pc' = "idle"
    /\ call' = NoCall
    /\ ret' = NullPath
    /\ stats' = NoStats
    /\ UNCHANGED << nodes, work >>

\* free_route_path on a route kept earlier
ReleaseHeld ==
    /\ pc = "idle"
    /\ held # << >>
    /\ held' = Tail(held)
    /\ UNCHANGED << nodes, pc, call, work, ret, stats >>

Next == CallShortestPath \/ ReleasePath
Spec == Init /\ [][Next]_vars

NextTour ==
    \/ CallShortestPath
    \/ SolveTspBegin
    \/ SolveTspRun
    \/ CallSequentialPath
    \/ ReleasePath
SpecTour == InitTour /\ [][NextTour]_vars

NextHold ==
    \/ CallShortestPath
    \/ CallShortestPathOutOfRange
    \/ ReleasePath
    \/ KeepPath
    \/ ReleaseHeld
SpecHold == InitHold /\ [][NextHold]_vars

(***************************************************************************)
(* The specification of routes on the heap.  work holds the heap of the    *)
(* call in progress, the pointers final_path (main) and leg, and the       *)
(* values *main and *leg had just before the last stitch.                  *)
(***************************************************************************)
MaxStitch == 2

\* graphs of two or three nodes of city 1, landmarks or airports, in the
\* order of their positions
OwnGraphs ==
    {g \in PathGraphs :
        /\ Len(g) >= 2
        /\ \A i \in 1 .. Len(g) :
              g[i].city_id = 1 /\ g[i].type \in TourTypes
        /\ \A i, j \in 1 .. Len(g) : i < j => g[i].pos < g[j].pos}

InitOwn == nodes \in OwnGraphs /\ Start

\* the id lists of the heap-level runs: every list of up to MaxStitch + 1 ids
OwnLists(g) == UNION {[1 .. n -> NodeIds(g)] : n \in 0 .. (MaxStitch + 1)}

\* the working state of a call: its heap, final_path (main, 0 before the
\* calloc), the last leg, the values of *final_path and *leg just before
\* the last stitch or append, the number of legs joined so far and the
\* legs still to be joined
OwnWork(h, main, pending) ==
    [allocated |-> {},
     heap |-> h,
     main |-> main,
     leg |-> 0,
     before_main |-> EmptyPath,
     before_leg |-> NullPath,
     stitched |-> 0,
     pending |-> pending]

\* final_path = calloc(1, sizeof(RoutePath)) on the heap h
FreshMain(h, pending) ==
    \E a \in {HeapAlloc(h, EmptyPath)} :
       work' = OwnWork(a.heap, a.ptr, pending)

\* stitch_paths applied to final_path and the result of a
\* find_shortest_path call for the ids s and e; rest are the legs left
StitchStep(s, e, tw, cw, rest) ==
    \E a \in {HeapAlloc(work.heap, find_shortest_path(nodes, s, e, tw, cw))} :
       work' = [work EXCEPT
                  !.heap = StitchHeap(a.heap, work.main, a.ptr),
                  !.leg = a.ptr,
                  !.before_main = Deref(a.heap, work.main),
                  !.before_leg = Deref(a.heap, a.ptr),
                  !.stitched = @ + 1,
                  !.pending = rest]

\* a caller of stitch_paths starts with an empty final_path
StitchBegin ==
    /\ pc = "idle"
    /\ call' = [op |-> "stitch", ids |-> << >>,
                time_weight |-> 0, cost_weight |-> 0]
    /\ FreshMain(EmptyHeap, << >>)
    /\ ret' = NullPath
    /\ pc' = "stitch"
    /\ UNCHANGED << nodes, stats, held >>

\* stitch_paths(final_path, find_shortest_path(network, s, e, ...)) for any
\* two ids of the network
StitchLeg ==
    /\ pc = "stitch"
    /\ work.stitched < MaxStitch
    /\ \E s \in NodeIds(nodes), e \in NodeIds(nodes),
          tw \in Weights, cw \in Weights : StitchStep(s, e, tw, cw, << >>)
    /\ UNCHANGED << nodes, pc, call, ret, stats, held >>

\* return final_path
StitchReturn ==
    /\ pc = "stitch"
    /\ pc' = "returned"
    /\ ret' = Deref(work.heap, work.main)
    /\ UNCHANGED << nodes, call, work, stats, held >>

\* solve_tsp step 1 on the heap: every route p found for a pair i # j is
\* released as soon as its cost is stored; k counts the pairs in row order
RECURSIVE MatrixHeap(_, _, _, _, _, _)
MatrixHeap(h, k, g, node_ids, num_nodes, w) ==
    IF k >= num_nodes * num_nodes THEN h
    ELSE IF k \div num_nodes = k % num_nodes
    THEN MatrixHeap(h, k + 1, g, node_ids, num_nodes, w)
    ELSE Bind(HeapAlloc(h, find_shortest_path(g,
                               IdAt(node_ids, k \div num_nodes),
                               IdAt(node_ids, k % num_nodes),
                               w.time_weight, w.cost_weight)),
              LAMBDA p :
                 MatrixHeap(free_route_path(p.heap, p.ptr), k + 1, g,
                            node_ids, num_nodes, w))

\* fault: the legs are stitched in the order of the visit, the closing leg
\* last
TourLegs_Forward(node_ids, order) ==
    [k \in 1 .. (Len(order) - 1) |->
       [s |-> IdAt(node_ids, order[k]), e |-> IdAt(node_ids, order[k + 1])]]
    \o << [s |-> IdAt(node_ids, order[Len(order)]), e |-> IdAt(node_ids, 0)] >>

\* the legs solve_tsp stitches, in the order it stitches them: the closing
\* leg, then the legs of the visiting order from the last one back
TourLegs(node_ids, order) ==
    << [s |-> IdAt(node_ids, order[Len(order)]), e |-> IdAt(node_ids, 0)] >>
    \o [k \in 1 .. (Len(order) - 1) |->
          [s |-> IdAt(node_ids, order[Len(order) - k]),
           e |-> IdAt(node_ids, order[Len(order) - k + 1])]]

\* solve_tsp up to the calloc of final_path: guards, cost matrix, DP and
\* the choice of the closing city
TourBegin ==
    /\ pc = "idle"
    /\ \E ids \in OwnLists(nodes), tw \in Weights, cw \in Weights :
          /\ call' = [op |-> "tour", ids |-> ids,
                      time_weight |-> tw, cost_weight |-> cw]
          /\ IF TspRejects(Len(ids))
             THEN /\ work' = OwnWork(EmptyHeap, 0, << >>)
                  /\ pc' = "returned"
             ELSE \E w \in {[time_weight |-> tw, cost_weight |-> cw]} :
                  \E h \in {MatrixHeap(EmptyHeap, 0, nodes, ids, Len(ids), w)} :
                  \E cm \in {CostMatrix(nodes, ids, Len(ids), tw, cw)} :
                  \E t \in {HeldKarp(Len(ids), cm)} :
                  \E best \in {ChooseTourEnd(t, Len(ids), cm)} :
                     IF best.tour_end_city = -1
                     THEN /\ work' = OwnWork(h, 0, << >>)
                          /\ pc' = "returned"
                     ELSE /\ FreshMain(h,
                                TourLegs(ids,
                                   RebuildTour(t, best.tour_end_city, nodes,
                                               ids, Len(ids), w).order))
                          /\ pc' = "tour_stitch"
    /\ ret' = NullPath
    /\ UNCHANGED << nodes, stats, held >>

\* solve_tsp step 4: one stitch_paths(final_path, find_shortest_path(...))
TourStitch ==
    /\ pc = "tour_stitch"
    /\ work.pending # << >>
    /\ StitchStep(Head(work.pending).s, Head(work.pending).e,
                  call.time_weight, call.cost_weight, Tail(work.pending))
    /\ UNCHANGED << nodes, pc, call, ret, stats, held >>

\* solve_tsp: return final_path
TourReturn ==
    /\ pc = "tour_stitch"
    /\ work.pending = << >>
    /\ pc' = "returned"
    /\ ret' = Deref(work.heap, work.main)
    /\ UNCHANGED << nodes, call, work, stats, held >>

\* the consecutive pairs of an id list
SequenceLegs(node_ids) ==
    [k \in 1 .. (Len(node_ids) - 1) |->
       [s |-> node_ids[k], e |-> node_ids[k + 1]]]

\* find_sequential_path joining a leg with segments: the list of the leg
\* is linked behind final_path's tail, the totals are added,
\* leg_path->segments_head is set to NULL and the leg is released
AppendHeap(h, final_path, leg_path) ==
    free_route_path(
       [h EXCEPT !.paths =
          [p \in DOMAIN h.paths |->
             IF p = final_path
             THEN AppendLeg(h.paths[p], h.paths[leg_path])
             ELSE IF p = leg_path
             THEN [h.paths[p] EXCEPT !.segs = << >>]
             ELSE h.paths[p]]],
       leg_path)

\* find_sequential_path up to the calloc of final_path
SequenceBegin ==
    /\ pc = "idle"
    /\ \E ids \in OwnLists(nodes), tw \in Weights, cw \in Weights :
          /\ call' = [op |-> "sequence", ids |-> ids,
                      time_weight |-> tw, cost_weight |-> cw]
          /\ IF Len(ids) < 2
             THEN /\ work' = OwnWork(EmptyHeap, 0, << >>)
                  /\ pc' = "returned"
             ELSE /\ FreshMain(EmptyHeap, SequenceLegs(ids))
                  /\ pc' = "seq_append"
    /\ ret' = NullPath
    /\ UNCHANGED << nodes, stats, held >>

\* one turn of the for loop of find_sequential_path: a leg that is NULL or
\* has no segment ends the call with final_path and the leg released
SequenceLeg ==
    /\ pc = "seq_append"
    /\ work.pending # << >>
    /\ \E a \in {HeapAlloc(work.heap,
                    find_shortest_path(nodes, Head(work.pending).s,
                                       Head(work.pending).e,
                                       call.time_weight, call.cost_weight))} :
          IF a.ptr = 0 \/ Deref(a.heap, a.ptr).segs = << >>
          THEN /\ work' = [work EXCEPT
                             !.heap = free_route_path(
                                         free_route_path(a.heap, work.main),
                                         a.ptr),
                             !.leg = a.ptr,
                             !.pending = << >>]
               /\ pc' = "returned"
          ELSE /\ work' = [work EXCEPT
                             !.heap = AppendHeap(a.heap, work.main, a.ptr),
                             !.leg = a.ptr,
                             !.before_main = Deref(a.heap, work.main),
                             !.before_leg = Deref(a.heap, a.ptr),
                             !.stitched = @ + 1,
                             !.pending = Tail(@)]
               /\ pc' = pc
    /\ UNCHANGED << nodes, call, ret, stats, held >>

\* find_sequential_path: return final_path
SequenceReturn ==
    /\ pc = "seq_append"
    /\ work.pending = << >>
    /\ pc' = "returned"
    /\ ret' = Deref(work.heap, work.main)
    /\ UNCHANGED << nodes, call, work, stats, held >>

\* main.c: free_route_path(path) on the returned pointer
ReleaseRoute ==
    /\ pc = "returned"
    /\ call.op \in {"stitch", "tour", "sequence"}
    /\ pc' = "released"
    /\ work' = [work EXCEPT
                  !.heap = free_route_path(@, IF ret.null THEN 0 ELSE work.main)]
    /\ UNCHANGED << nodes, call, ret, stats, held >>

\* main.c: back at the menu, nothing of the call is left
NextCall ==
    /\ pc = "released"
    /\ pc' = "idle"
    /\ call' = NoCall
    /\ work' = NoWork
    /\ ret' = NullPath
    /\ UNCHANGED << nodes, stats, held >>

NextOwn ==
    \/ StitchBegin
    \/ StitchLeg
    \/ StitchReturn
    \/ TourBegin
    \/ TourStitch
    \/ TourReturn
    \/ SequenceBegin
    \/ SequenceLeg
    \/ SequenceReturn
    \/ ReleaseRoute
    \/ NextCall
SpecOwn == InitOwn /\ [][NextOwn]_vars

(***************************************************************************)
(* The specification of the cost model: calculate_travel_info evaluated on *)
(* any two nodes of a graph, and find_shortest_path on the same graphs.    *)
(* The sites are 10 km, 300 km, 300.1 km, 310 km and about 1000 km apart.  *)
(***************************************************************************)
CostSites ==
    {[city_id |-> 1, pos |-> 0], [city_id |-> 1, pos |-> 100],
     [city_id |-> 1, pos |-> 3100], [city_id |-> 2, pos |-> 3000],
     [city_id |-> 2, pos |-> 3001], [city_id |-> 2, pos |-> 10100],
     [city_id |-> 2, pos |-> -9900]}
CostChoices ==
    {[city_id |-> s.city_id, pos |-> s.pos, type |-> t] :
        s \in CostSites, t \in NodeTypes}

\* the graphs of two nodes at different sites
PairGraphs ==
    {g \in [1 .. 2 -> CostChoices] : g[1].pos # g[2].pos}

\* the three nodes of the scenario: landmark A and airport B of city 1,
\* 10 km apart, and airport C of city 2, 1000 km from B on either side
ScenarioA == [city_id |-> 1, pos |-> 0, type |-> NODE_TYPE_LANDMARK]
ScenarioB == [city_id |-> 1, pos |-> 100, type |-> NODE_TYPE_AIRPORT]
ScenarioC == {[city_id |-> 2, pos |-> p, type |-> NODE_TYPE_AIRPORT] :
                 p \in {10100, -9900}}

\* the scenario graphs: the three nodes in any order of ids
ScenarioGraphs ==
    {g \in [1 .. 3 -> {ScenarioA, ScenarioB} \cup ScenarioC] :
        /\ \E i \in 1 .. 3 : g[i] = ScenarioA
        /\ \E i \in 1 .. 3 : g[i] = ScenarioB
        /\ \E i \in 1 .. 3 : g[i] \in ScenarioC}

CostGraphs == PairGraphs \cup ScenarioGraphs

InitCost == nodes \in CostGraphs /\ Start

\* calculate_travel_info(dist, mode, from, to) as find_shortest_path calls
\* it: for two nodes of the network more than 0.1 km apart, dist their
\* distance, any mode
EvaluateEdge ==
    /\ pc = "idle"
    /\ \E u \in NodeIds(nodes), v \in NodeIds(nodes), mode \in Modes :
       \E dist \in {calculate_distance(NodeAt(nodes, u), NodeAt(nodes, v))} :
          /\ u # v
          /\ ~ TooClose(dist)
          /\ work' = [allocated |-> {},
                      mode |-> mode,
                      from_node |-> NodeAt(nodes, u),
                      to_node |-> NodeAt(nodes, v),
                      distance_km |-> dist,
                      travel |-> calculate_travel_info(dist, mode,
                                    NodeAt(nodes, u), NodeAt(nodes, v))]
    /\ pc' = "evaluated"
    /\ UNCHANGED << nodes, call, ret, stats, held >>

NextCost == EvaluateEdge \/ CallShortestPath \/ ReleasePath
SpecCost == InitCost /\ [][NextCost]_vars

(***************************************************************************)
(* The specification of the steps of find_shortest_path: one action per    *)
(* iteration of the main loop and of the predecessor walk.  work holds     *)
(* the arrays d, the loop counter i, the nodes marked visited in order     *)
(* (selected), the route under construction (path), current_node_id        *)
(* (current) and the nodes the walk has left (walked).                     *)
(***************************************************************************)
\* the graphs of the steps: the graphs of PathGraphs whose ids follow the
\* positions of the nodes, upwards or downwards
StepGraphs ==
    {g \in PathGraphs :
        \/ \A i, j \in 1 .. Len(g) : i < j => g[i].pos < g[j].pos
        \/ \A i, j \in 1 .. Len(g) : i < j => g[i].pos > g[j].pos}

InitSteps == nodes \in StepGraphs /\ Start

\* validation passed: the arrays are allocated and initialised
FspBegin ==
    /\ pc = "idle"
    /\ \E s \in NodeIds(nodes), e \in NodeIds(nodes),
          tw \in Weights, cw \in Weights :
          /\ call' = [op |-> "fsp", ids |-> << s, e >>,
                      time_weight |-> tw, cost_weight |-> cw]
          /\ work' = [allocated |-> {},
                      d |-> DijkstraInit(nodes, s),
                      i |-> 0,
                      selected |-> << >>,
                      path |-> NullPath,
                      current |-> e,
                      walked |-> << >>]
    /\ pc' = "fsp_loop"
    /\ ret' = NullPath
    /\ UNCHANGED << nodes, stats, held >>

\* the main loop is about to run an iteration that does not break
LoopContinues ==
    /\ work.i < NodeCount(nodes)
    /\ ~ LoopBreaks(SelectMin(nodes, work.d), call.ids[2])

\* one iteration of the main loop: select u, mark it, relax through it
FspIterate ==
    /\ pc = "fsp_loop"
    /\ LoopContinues
    /\ \E u \in {SelectMin(nodes, work.d)} :
          work' = [work EXCEPT
                     !.d = Relax(nodes, work.d, u,
                                 [time_weight |-> call.time_weight,
                                  cost_weight |-> call.cost_weight]),
                     !.i = @ + 1,
                     !.selected = Append(@, u)]
    /\ UNCHANGED << nodes, pc, call, ret, stats, held >>

\* the main loop ends; "no path" returns NULL, otherwise the route is
\* allocated and the walk starts at end_node_id
FspLoopExit ==
    /\ pc = "fsp_loop"
    /\ ~ LoopContinues
    /\ IF work.d.nodes[call.ids[2]].predecessor_node_id = -1
          /\ call.ids[1] # call.ids[2]
       THEN /\ pc' = "returned"
            /\ UNCHANGED work
       ELSE /\ pc' = "fsp_walk"
            /\ work' = [work EXCEPT !.path = EmptyPath]
    /\ UNCHANGED << nodes, call, ret, stats, held >>

\* the predecessor walk is about to run an iteration
WalkContinues ==
    /\ work.current # call.ids[1]
    /\ work.d.nodes[work.current].predecessor_node_id # -1

\* one iteration of the predecessor walk
FspWalk ==
    /\ pc = "fsp_walk"
    /\ WalkContinues
    /\ work' = [work EXCEPT
                  !.path = PushSegment(@, MakeSegment(nodes, work.d,
                                                      work.current)),
                  !.current = work.d.nodes[work.current].predecessor_node_id,
                  !.walked = Append(@, work.current)]
    /\ UNCHANGED << nodes, pc, call, ret, stats, held >>

\* the walk has ended: return path
FspReturn ==
    /\ pc = "fsp_walk"
    /\ ~ WalkContinues
    /\ pc' = "returned"
    /\ ret' = work.path
    /\ UNCHANGED << nodes, call, work, stats, held >>

\* main.c: the route is shown and released, back at the menu
FspRelease ==
    /\ pc = "returned"
    /\ pc' = "idle"
    /\ call' = NoCall
    /\ work' = NoWork
    /\ ret' = NullPath
    /\ UNCHANGED << nodes, stats, held >>

NextSteps ==
    \/ FspBegin
    \/ FspIterate
    \/ FspLoopExit
    \/ FspWalk
    \/ FspReturn
    \/ FspRelease
SpecSteps == InitSteps /\ [][NextSteps]_vars

\* the same steps, none of them postponed for ever: a call that has started
\* keeps running until it returns
SpecStepsFair ==
    /\ SpecSteps
    /\ WF_vars(FspIterate)
    /\ WF_vars(FspLoopExit)
    /\ WF_vars(FspWalk)
    /\ WF_vars(FspReturn)

(***************************************************************************)
(* Reference definitions for the properties.  They are written from the    *)
(* statements of the properties, not from the search code.                 *)
(***************************************************************************)

SetMin(S) == Bind(S, LAMBDA T : CHOOSE x \in T : \A y \in T : x <= y)

\* the last call was op and has returned
Returned(op) == pc = "returned" /\ call.op = op

\* the last call was find_shortest_path with ids inside 0 .. node_count - 1
FspValid ==
    /\ Returned("fsp")
    /\ call.ids[1] \in NodeIds(nodes)
    /\ call.ids[2] \in NodeIds(nodes)

\* weighted cost of one segment under the weights of the last call
SegWeighted(seg) ==
    WeightedCost(seg.time_hours, seg.cost_yuan,
                 call.time_weight, call.cost_weight)

\* the sum of field over the first k segments
RECURSIVE SumOver(_, _, _)
SumOver(segs, k, field) ==
    IF k = 0 THEN 0 ELSE segs[k][field] + SumOver(segs, k - 1, field)

\* the route's weighted cost: the sum over its segments
RECURSIVE WeightedOver(_, _)
WeightedOver(segs, k) ==
    IF k = 0 THEN 0 ELSE SegWeighted(segs[k]) + WeightedOver(segs, k - 1)

RouteWeighted(p) == WeightedOver(p.segs, Len(p.segs))

\* the modes the Cost Model reports as reachable between nodes u and v
LegalModes(u, v) ==
    {m \in Modes :
        calculate_travel_info(calculate_distance(NodeAt(nodes, u),
                                                 NodeAt(nodes, v)),
                              m, NodeAt(nodes, u), NodeAt(nodes, v)).is_reachable}

\* weighted cost of edge (u, v) by mode m
ModeWeighted(u, v, m) ==
    Bind(calculate_travel_info(calculate_distance(NodeAt(nodes, u),
                                                  NodeAt(nodes, v)),
                               m, NodeAt(nodes, u), NodeAt(nodes, v)),
         LAMBDA t : WeightedCost(t.time_hours, t.cost_yuan,
                                 call.time_weight, call.cost_weight))

\* more than 0.1 km apart
FarApart(u, v) ==
    calculate_distance(NodeAt(nodes, u), NodeAt(nodes, v)) > 1

\* an edge of the full graph: some mode is legal; of the searched graph:
\* some mode is legal and the endpoints are more than 0.1 km apart
HasEdge(u, v, far_only) ==
    u # v /\ LegalModes(u, v) # {} /\ (far_only => FarApart(u, v))

\* the cheapest legal mode of an edge
EdgeCost(u, v) == SetMin({ModeWeighted(u, v, m) : m \in LegalModes(u, v)})

\* the least weighted cost of a sequence of edges from u to e that visits
\* no node of seen again (weights are non-negative, so a cheapest sequence
\* visits no node twice); DBL_MAX when there is none
RECURSIVE Cheapest(_, _, _, _)
Cheapest(u, e, seen, far_only) ==
    IF u = e THEN 0
    ELSE Bind({FAdd(EdgeCost(u, v),
                    Cheapest(v, e, seen \cup {v}, far_only)) :
                  v \in {x \in NodeIds(nodes) \ seen :
                            HasEdge(u, x, far_only)}},
              LAMBDA via : IF via = {} THEN DBL_MAX ELSE SetMin(via))

\* the nodes connected to the nodes of S by a sequence of edges
RECURSIVE ReachSet(_, _)
ReachSet(S, far_only) ==
    Bind(S \cup {v \in NodeIds(nodes) :
                    \E u \in S : HasEdge(u, v, far_only)},
         LAMBDA T : IF T = S THEN S ELSE ReachSet(T, far_only))

Connected(s, e, far_only) == e \in ReachSet({s}, far_only)

RECURSIVE LegsFrom(_, _, _, _)
LegsFrom(cm, perm, k, n) ==
    IF k = n - 1 THEN cm[perm[k]][0]
    ELSE FAdd(cm[perm[k]][perm[k + 1]], LegsFrom(cm, perm, k + 1, n))

CycleCost(cm, perm, n) == FAdd(cm[0][perm[1]], LegsFrom(cm, perm, 1, n))

\* the orderings of the list positions 1 .. n-1
Orderings(n) ==
    {f \in [1 .. (n - 1) -> 1 .. (n - 1)] :
        \A a, b \in 1 .. (n - 1) : f[a] = f[b] => a = b}

\* exhaustive search: the least cycle cost over all orderings
BruteForce(cm, n) == SetMin({CycleCost(cm, perm, n) : perm \in Orderings(n)})

\* the order walked by solve_tsp, without its leading position 0
OrderTail == [k \in 1 .. (Len(stats.order) - 1) |-> stats.order[k + 1]]

\* C3: when solve_tsp returns a route, the order it reconstructs is an
\* ordering of all list positions starting at position 0, and its cycle
\* cost in the cost matrix equals the minimum found by exhaustive search
\* over the orderings.
C3_MatchesBruteForce ==
    (Returned("tsp") /\ ~ ret.null) =>
        /\ Len(stats.order) = Len(call.ids)
        /\ stats.order[1] = 0
        /\ OrderTail \in Orderings(Len(call.ids))
        /\ CycleCost(stats.cost_matrix, OrderTail, Len(call.ids))
              = BruteForce(stats.cost_matrix, Len(call.ids))

\* a tour of four stops was returned and some other ordering is dearer
C3_Witness ==
    /\ Returned("tsp")
    /\ ~ ret.null
    /\ Len(call.ids) = 4
    /\ \E perm \in Orderings(4) :
          CycleCost(stats.cost_matrix, perm, 4)
             > BruteForce(stats.cost_matrix, 4)

\* C4: a route returned for start # end is a chain from start to end: it
\* has a segment, the first starts at start, the last ends at end, and each
\* segment ends where the next starts.
C4_Contiguous ==
    (FspValid /\ call.ids[1] # call.ids[2] /\ ~ ret.null) =>
        /\ ret.segs # << >>
        /\ ret.segs[1].from_node_id = call.ids[1]
        /\ ret.segs[Len(ret.segs)].to_node_id = call.ids[2]
        /\ \A k \in 1 .. (Len(ret.segs) - 1) :
              ret.segs[k].to_node_id = ret.segs[k + 1].from_node_id

\* a route of two segments was returned
C4_Witness ==
    /\ FspValid
    /\ ~ ret.null
    /\ Len(ret.segs) = 2
    /\ ret.segs[1].to_node_id \notin {call.ids[1], call.ids[2]}

\* C5: every route returned by find_shortest_path, solve_tsp or
\* find_sequential_path has totals equal to the sums of its segments'
\* fields and segment_count equal to the number of its segments.
C5_TotalsAreSums ==
    (pc = "returned" /\ ~ ret.null) =>
        /\ ret.total_distance = SumOver(ret.segs, Len(ret.segs), "distance_km")
        /\ ret.total_time = SumOver(ret.segs, Len(ret.segs), "time_hours")
        /\ ret.total_cost = SumOver(ret.segs, Len(ret.segs), "cost_yuan")
        /\ ret.segment_count = Len(ret.segs)

\* solve_tsp returned a tour of more segments than stops
C5_Witness ==
    /\ Returned("tsp")
    /\ ~ ret.null
    /\ Len(ret.segs) > Len(call.ids)
    /\ ret.total_distance > 0

\* C6: a route returned by solve_tsp is a closed tour: its first segment
\* starts at ids[0], its last ends at ids[0], and every designated id is an
\* endpoint of some segment.
C6_ClosedTour ==
    (Returned("tsp") /\ ~ ret.null) =>
        /\ ret.segs # << >>
        /\ ret.segs[1].from_node_id = call.ids[1]
        /\ ret.segs[Len(ret.segs)].to_node_id = call.ids[1]
        /\ \A k \in 1 .. Len(call.ids) :
              \E j \in 1 .. Len(ret.segs) :
                 \/ ret.segs[j].from_node_id = call.ids[k]
                 \/ ret.segs[j].to_node_id = call.ids[k]

\* a tour through three different nodes was returned
C6_Witness ==
    /\ Returned("tsp")
    /\ ~ ret.null
    /\ Len(call.ids) = 3
    /\ ret.segs[1].from_node_id = call.ids[1]
    /\ Cardinality({call.ids[k] : k \in 1 .. 3}) = 3

\* C7: for 2 <= n <= 10 solve_tsp returns NULL exactly when no ordering of
\* the designated nodes forms a cycle whose legs all have finite cost.
C7_NullIffNoFiniteCycle ==
    (Returned("tsp") /\ Len(call.ids) >= 2 /\ Len(call.ids) <= TSP_MAX_NODES) =>
        (ret.null <=>
            BruteForce(stats.cost_matrix, Len(call.ids)) = DBL_MAX)

\* NULL was returned for three stops, two of them different nodes with a
\* finite leg between them
C7_Witness ==
    /\ Returned("tsp")
    /\ Len(call.ids) = 3
    /\ ret.null
    /\ stats.cost_matrix[0][1] < DBL_MAX

\* C8: for a node count outside 2 .. 10 solve_tsp returns NULL at once: it
\* never gets past its guards, invokes find_shortest_path not once and
\* executes no DP step.
C8_RejectsOutOfRange ==
    (call.op = "tsp" /\ (Len(call.ids) <= 1 \/ Len(call.ids) > 10)) =>
        /\ pc = "returned"
        /\ ret.null
        /\ stats.fsp_calls = 0
        /\ stats.dp_steps = 0
        /\ stats.order = << >>

\* solve_tsp was called with eleven ids and has returned NULL
C8_Witness ==
    /\ Returned("tsp")
    /\ Len(call.ids) = 11
    /\ ret.null

\* C9: a find_shortest_path call with a start or end id outside
\* 0 .. node_count - 1 returns NULL and leaves the graph and the routes
\* returned earlier as they were.
C9_InvalidIdsNoEffect ==
    [][(/\ pc = "idle"
        /\ call'.op = "fsp"
        /\ (call'.ids[1] \notin NodeIds(nodes) \/ call'.ids[2] \notin NodeIds(nodes)))
       => (/\ pc' = "returned"
           /\ ret'.null
           /\ nodes' = nodes
           /\ held' = held)]_vars

\* a call with an id out of range has returned while the caller holds a
\* route of an earlier call
C9_Witness ==
    /\ Returned("fsp")
    /\ (call.ids[1] \notin NodeIds(nodes) \/ call.ids[2] \notin NodeIds(nodes))
    /\ ret.null
    /\ held # << >>
    /\ held[1].segs # << >>

\* C10: for a valid id a, find_shortest_path(a, a) returns a route that is
\* not NULL and has no segments and zero totals, whatever the weights.
C10_SameNodeEmptyRoute ==
    (FspValid /\ call.ids[1] = call.ids[2]) =>
        /\ ~ ret.null
        /\ ret.segs = << >>
        /\ ret.segment_count = 0
        /\ ret.total_distance = 0
        /\ ret.total_time = 0
        /\ ret.total_cost = 0

\* find_shortest_path(a, a) has returned in a graph of several nodes, with
\* positive weights
C10_Witness ==
    /\ FspValid
    /\ call.ids[1] = call.ids[2]
    /\ ~ ret.null
    /\ NodeCount(nodes) > 1
    /\ call.time_weight > 0
    /\ call.cost_weight > 0

\* the route find_shortest_path returns for the ids and cost weight of the
\* last call when the time weight is tw
RouteAtTimeWeight(tw) ==
    find_shortest_path(nodes, call.ids[1], call.ids[2], tw, call.cost_weight)

\* C11: for a fixed graph, start, end and cost weight, the route returned
\* at a larger time weight has a total time no greater than the route
\* returned at the smaller one.
C11_WeightMonotonic ==
    (FspValid /\ ~ ret.null) =>
        \A tw \in Weights :
           tw > call.time_weight =>
              /\ ~ RouteAtTimeWeight(tw).null
              /\ RouteAtTimeWeight(tw).total_time <= ret.total_time

\* a route was returned, and the route at a larger time weight is strictly
\* faster
C11_Witness ==
    /\ FspValid
    /\ ~ ret.null
    /\ ret.segs # << >>
    /\ \E tw \in Weights :
          /\ tw > call.time_weight
          /\ RouteAtTimeWeight(tw).total_time < ret.total_time

\* a stitch has just been applied
Stitched == pc \in {"stitch", "tour_stitch"} /\ work.stitched > 0

\* *final_path as it is now
MainNow == Deref(work.heap, work.main)

\* C12: after stitch_paths(main, leg) the total_distance, total_time,
\* total_cost and segment_count of main each equal the sum of the values
\* main and leg had before the call (a NULL leg contributes nothing).
C12_StitchTotalsAdd ==
    Stitched =>
        /\ MainNow.total_distance
              = work.before_main.total_distance + work.before_leg.total_distance
        /\ MainNow.total_time
              = work.before_main.total_time + work.before_leg.total_time
        /\ MainNow.total_cost
              = work.before_main.total_cost + work.before_leg.total_cost
        /\ MainNow.segment_count
              = work.before_main.segment_count + work.before_leg.segment_count

\* a leg with segments was stitched onto a main route with segments
C12_Witness ==
    /\ Stitched
    /\ work.before_main.total_distance > 0
    /\ work.before_leg.total_distance > 0
    /\ MainNow.segment_count > work.before_main.segment_count

\* C13: after stitch_paths(main, leg) with a leg that has segments, main's
\* segments are leg's former segments in their order followed by main's
\* former segments in their order.
C13_LegPrepended ==
    (Stitched /\ work.before_leg.segs # << >>) =>
        MainNow.segs = work.before_leg.segs \o work.before_main.segs

\* a leg of two segments was stitched onto a main route with segments
C13_Witness ==
    /\ Stitched
    /\ Len(work.before_leg.segs) >= 2
    /\ work.before_main.segs # << >>

\* C14: when leg is NULL or has no segments, stitch_paths(main, leg) leaves
\* main as it was and leg is released.
C14_EmptyLegNoOp ==
    (Stitched /\ (work.before_leg.null \/ work.before_leg.segs = << >>)) =>
        /\ MainNow = work.before_main
        /\ work.leg # 0 => work.leg \in work.heap.freed_paths
        /\ work.main \notin work.heap.freed_paths
        /\ ~ work.heap.double_free

\* a route without segments was stitched onto a main route with segments
C14_Witness ==
    /\ Stitched
    /\ ~ work.before_leg.null
    /\ work.before_leg.segs = << >>
    /\ work.before_main.segs # << >>
    /\ work.leg \in work.heap.freed_paths

(***************************************************************************)
(* Ownership of segments on the heap.                                      *)
(***************************************************************************)
\* the containers allocated and not passed to free
LivePaths == DOMAIN work.heap.paths \ work.heap.freed_paths

\* the live containers whose list holds the segment at address a
OwnersOf(a) == {p \in LivePaths : a \in SegAddrs(work.heap.paths[p])}

\* a run of solve_tsp or find_sequential_path, from its first allocation to
\* the release of its result by the caller
InOwnedRun == call.op \in {"tour", "sequence"}

\* a leg was joined to final_path by the last step of the run
LegJoined ==
    /\ InOwnedRun
    /\ pc \in {"tour_stitch", "seq_append"}
    /\ work.stitched > 0

\* C15: in any run of solve_tsp or find_sequential_path every PathSegment
\* that has not been freed is in the list of exactly one live RoutePath and
\* no freed segment is in the list of a live RoutePath; after a leg is
\* joined, the segments it gave are in final_path and none of them was freed
\* with the leg; no block is passed to free twice; and a returned route and
\* its segments have not been freed.
C15_OwnershipTransfersOnce ==
    InOwnedRun =>
       /\ \A a \in 1 .. work.heap.segs_made :
             IF a \in work.heap.freed_segs
             THEN OwnersOf(a) = {}
             ELSE Cardinality(OwnersOf(a)) = 1
       /\ LegJoined =>
             /\ SegAddrs(work.before_leg) \subseteq
                   SegAddrs(Deref(work.heap, work.main))
             /\ SegAddrs(work.before_leg) \cap work.heap.freed_segs = {}
             /\ work.leg \in work.heap.freed_paths
             /\ work.main \notin work.heap.freed_paths
       /\ ~ work.heap.double_free
       /\ (pc = "returned" /\ ~ ret.null) =>
             /\ work.main \notin work.heap.freed_paths
             /\ ret = Deref(work.heap, work.main)
             /\ SegAddrs(ret) \cap work.heap.freed_segs = {}

\* a tour of three stops is returned after three stitches that each moved
\* segments, and a sequence is returned after two appended legs
C15_Witness ==
    /\ pc = "returned"
    /\ ~ ret.null
    /\ call.op = "tour"
    /\ work.stitched = 3
    /\ Len(ret.segs) >= 3
    /\ work.heap.freed_segs # {}
    /\ Cardinality(work.heap.freed_paths) >= 9

(***************************************************************************)
(* The rules and costs of calculate_travel_info.                           *)
(***************************************************************************)
\* calculate_travel_info has just been evaluated for the mode
Evaluated(mode) == pc = "evaluated" /\ work.mode = mode

\* both endpoints of the evaluated edge have the type
BothOfType(type) == work.from_node.type = type /\ work.to_node.type = type

\* the endpoints of the evaluated edge are of different cities
DifferentCities == work.from_node.city_id # work.to_node.city_id

\* C16: FLIGHT is reported reachable exactly when both endpoints are
\* airports of different cities, and HIGH_SPEED_RAIL exactly when both
\* endpoints are high-speed rail stations of different cities.
C16_FlightAndRailRules ==
    /\ Evaluated(FLIGHT) =>
          (work.travel.is_reachable <=>
              (BothOfType(NODE_TYPE_AIRPORT) /\ DifferentCities))
    /\ Evaluated(HIGH_SPEED_RAIL) =>
          (work.travel.is_reachable <=>
              (BothOfType(NODE_TYPE_HSR_STATION) /\ DifferentCities))

\* a flight between two airports of different cities is reported reachable
C16_Witness ==
    /\ Evaluated(FLIGHT)
    /\ BothOfType(NODE_TYPE_AIRPORT)
    /\ DifferentCities
    /\ work.travel.is_reachable

\* the evaluated edge is a DRIVING or BUS edge reported reachable
RoadReachable ==
    /\ pc = "evaluated"
    /\ work.mode \in {DRIVING, BUS}
    /\ work.travel.is_reachable

\* C17: a DRIVING or BUS edge between nodes of different cities is reported
\* reachable only if both endpoints are landmarks.
C17_InterCityRoadLandmarksOnly ==
    (RoadReachable /\ DifferentCities) => BothOfType(NODE_TYPE_LANDMARK)

\* C18: a DRIVING or BUS edge between nodes of one city is reported
\* reachable only if the endpoints have different types.
C18_IntraCityRoadDifferentTypes ==
    (RoadReachable /\ ~ DifferentCities) =>
        work.from_node.type # work.to_node.type

\* the cost of the per-km table for the evaluated edge, in 0.01 yuan: the
\* intra-city constants for DRIVING and for the other modes, the table
\* transport_attrs between cities
TableCost ==
    work.distance_km *
       (IF DifferentCities THEN cost_per_km(work.mode)
        ELSE IF work.mode = DRIVING THEN 15 ELSE 3)

\* 300 km in units of 0.1 km
SurchargeKm == 3000

\* C19: the cost of a reachable BUS edge longer than 300 km is 1.5 times
\* the cost of the per-km table; the cost of every other reachable edge is
\* the cost of the table.
C19_LongBusSurcharge ==
    (pc = "evaluated" /\ work.travel.is_reachable) =>
        IF work.mode = BUS /\ work.distance_km > SurchargeKm
        THEN 2 * work.travel.cost_yuan = 3 * TableCost
        ELSE work.travel.cost_yuan = TableCost

(***************************************************************************)
(* The scenario of the landmark, the airport of its city and the airport   *)
(* of another city.                                                        *)
(***************************************************************************)
\* the id of the scenario node of the type in the city
ScenarioId(city_id, type) ==
    CHOOSE i \in NodeIds(nodes) :
       NodeAt(nodes, i).city_id = city_id /\ NodeAt(nodes, i).type = type

\* find_shortest_path(A, C, 1, 0) has returned on a scenario graph
ScenarioCall ==
    /\ nodes \in ScenarioGraphs
    /\ Returned("fsp")
    /\ call.ids = << ScenarioId(1, NODE_TYPE_LANDMARK),
                     ScenarioId(2, NODE_TYPE_AIRPORT) >>
    /\ call.time_weight = 1
    /\ call.cost_weight = 0

\* C20: with A a landmark and B an airport of city 1, 10 km apart, and C an
\* airport of city 2, 1000 km from B, find_shortest_path(A, C, 1, 0)
\* returns exactly two segments, A to B by DRIVING then B to C by FLIGHT.
C20_ScenarioDriveThenFly ==
    ScenarioCall =>
       /\ ~ ret.null
       /\ ret.segment_count = 2
       /\ Len(ret.segs) = 2
       /\ ret.segs[1].from_node_id = ScenarioId(1, NODE_TYPE_LANDMARK)
       /\ ret.segs[1].to_node_id = ScenarioId(1, NODE_TYPE_AIRPORT)
       /\ ret.segs[1].mode = DRIVING
       /\ ret.segs[1].distance_km = 100
       /\ ret.segs[2].from_node_id = ScenarioId(1, NODE_TYPE_AIRPORT)
       /\ ret.segs[2].to_node_id = ScenarioId(2, NODE_TYPE_AIRPORT)
       /\ ret.segs[2].mode = FLIGHT
       /\ ret.segs[2].distance_km = 10000

\* the call of the scenario has returned a route, with C on the side of B
\* away from A
C20_Witness ==
    /\ ScenarioCall
    /\ ~ ret.null
    /\ Len(ret.segs) = 2
    /\ NodeAt(nodes, call.ids[2]).pos = 10100

\* DRIVING from a landmark of one city to an airport of another, 300 km
\* apart, is reported reachable
C17_FailingEdge ==
    /\ Evaluated(DRIVING)
    /\ DifferentCities
    /\ work.from_node.type = NODE_TYPE_LANDMARK
    /\ work.to_node.type = NODE_TYPE_AIRPORT
    /\ work.distance_km = 3000
    /\ work.travel.is_reachable

\* DRIVING between two landmarks of one city, 10 km apart, is reported
\* reachable
C18_FailingEdge ==
    /\ Evaluated(DRIVING)
    /\ ~ DifferentCities
    /\ BothOfType(NODE_TYPE_LANDMARK)
    /\ work.distance_km = 100
    /\ work.travel.is_reachable

\* BUS between two landmarks of different cities, 300.1 km apart, is
\* reported reachable at the cost of the per-km table
C19_FailingEdge ==
    /\ Evaluated(BUS)
    /\ DifferentCities
    /\ BothOfType(NODE_TYPE_LANDMARK)
    /\ work.distance_km = 3001
    /\ work.travel.is_reachable
    /\ work.travel.cost_yuan = TableCost

(***************************************************************************)
(* The scenario without the airport of the landmark's city.                *)
(***************************************************************************)
\* the graph holds only A and C, and find_shortest_path(A, C, ...) has
\* returned
ScenarioWithoutB ==
    /\ Len(nodes) = 2
    /\ \E i \in 1 .. 2 : nodes[i] = ScenarioA
    /\ \E i \in 1 .. 2 : nodes[i] \in ScenarioC
    /\ Returned("fsp")
    /\ NodeAt(nodes, call.ids[1]) = ScenarioA
    /\ NodeAt(nodes, call.ids[2]) \in ScenarioC

\* C21: in the graph of the landmark A of city 1 and the airport C of
\* city 2 alone, find_shortest_path(A, C) returns NULL for any weights.
C21_NotFoundWithoutB == ScenarioWithoutB => ret.null

\* the call returned a route of one DRIVING segment from A to C
C21_FailingCall ==
    /\ ScenarioWithoutB
    /\ call.time_weight = 1
    /\ call.cost_weight = 0
    /\ ~ ret.null
    /\ Len(ret.segs) = 1
    /\ ret.segs[1].mode = DRIVING

(***************************************************************************)
(* find_sequential_path against the legs find_shortest_path returns.       *)
(***************************************************************************)
\* find_sequential_path was called with two ids or more and has returned
SequenceReturned ==
    /\ pc = "returned"
    /\ call.op = "sequence"
    /\ Len(call.ids) >= 2

\* the route find_shortest_path returns for the k-th consecutive pair
LegOf(k) ==
    find_shortest_path(nodes, call.ids[k], call.ids[k + 1],
                       call.time_weight, call.cost_weight)

\* the segments of the legs k, k + 1, ... in the order of the list
RECURSIVE LegsFromTo(_, _)
LegsFromTo(k, last) ==
    IF k > last THEN << >>
    ELSE LegOf(k).segs \o LegsFromTo(k + 1, last)

\* the segments of a route on the heap, without their addresses
PlainSegs(route) ==
    [k \in 1 .. Len(route.segs) |->
       [from_node_id |-> route.segs[k].from_node_id,
        to_node_id |-> route.segs[k].to_node_id,
        mode |-> route.segs[k].mode,
        distance_km |-> route.segs[k].distance_km,
        time_hours |-> route.segs[k].time_hours,
        cost_yuan |-> route.segs[k].cost_yuan]]

\* NULL was returned and every block of the call was released
NullAndReleased ==
    /\ ret.null
    /\ LivePaths = {}
    /\ work.heap.freed_segs = 1 .. work.heap.segs_made
    /\ ~ work.heap.double_free

\* the legs in the given order were returned
LegsInOrder ==
    /\ ~ ret.null
    /\ PlainSegs(ret) = LegsFromTo(1, Len(call.ids) - 1)
    /\ ret.segment_count = Len(ret.segs)

\* C22 as stated: find_sequential_path returns NULL, the partial route
\* released, if find_shortest_path finds no route for some consecutive
\* pair, and otherwise returns the segments of the legs in the given order.
C22_NullIffLegUnconnected ==
    SequenceReturned =>
       IF \E k \in 1 .. (Len(call.ids) - 1) : LegOf(k).null
       THEN NullAndReleased
       ELSE LegsInOrder

\* C22 amended: find_sequential_path returns NULL, the partial route
\* released, if for some consecutive pair find_shortest_path finds no route
\* or the two ids are equal (a leg without segments), and otherwise returns
\* the segments of the legs in the given order.
C22_NullIffLegMissingOrEmpty ==
    SequenceReturned =>
       IF \E k \in 1 .. (Len(call.ids) - 1) :
             LegOf(k).null \/ call.ids[k] = call.ids[k + 1]
       THEN NullAndReleased
       ELSE LegsInOrder

\* a sequence of three ids was returned with two legs of different
\* segments joined
C22_Witness ==
    /\ SequenceReturned
    /\ Len(call.ids) = 3
    /\ ~ ret.null
    /\ work.stitched = 2
    /\ LegOf(1).segs # LegOf(2).segs
    /\ Len(ret.segs) >= 2

(***************************************************************************)
(* The modes of the segments of a returned route.                          *)
(***************************************************************************)
\* C23: every segment of a route returned by find_shortest_path uses a mode
\* the Cost Model reports reachable for the segment's endpoints, and no
\* reachable mode of that pair has a smaller weighted cost under the
\* weights of the call.
C23_SegmentsUseCheapestMode ==
    (FspValid /\ ~ ret.null) =>
        \A k \in 1 .. Len(ret.segs) :
           /\ ret.segs[k].mode \in
                 LegalModes(ret.segs[k].from_node_id, ret.segs[k].to_node_id)
           /\ \A m \in LegalModes(ret.segs[k].from_node_id,
                                  ret.segs[k].to_node_id) :
                 ModeWeighted(ret.segs[k].from_node_id,
                              ret.segs[k].to_node_id, ret.segs[k].mode)
                 <= ModeWeighted(ret.segs[k].from_node_id,
                                 ret.segs[k].to_node_id, m)

\* a returned segment uses BUS where DRIVING is reachable too and costs
\* more under the weights of the call
C23_Witness ==
    /\ FspValid
    /\ ~ ret.null
    /\ \E k \in 1 .. Len(ret.segs) :
          /\ ret.segs[k].mode = BUS
          /\ DRIVING \in LegalModes(ret.segs[k].from_node_id,
                                    ret.segs[k].to_node_id)
          /\ ModeWeighted(ret.segs[k].from_node_id, ret.segs[k].to_node_id,
                          BUS)
             < ModeWeighted(ret.segs[k].from_node_id, ret.segs[k].to_node_id,
                            DRIVING)

(***************************************************************************)
(* Reconstruction against relaxation.                                      *)
(***************************************************************************)
\* dijkstra_nodes[end_node_id].cost when the main loop of the last call
\* has ended
TargetCost ==
    DijkstraRun(nodes, DijkstraInit(nodes, call.ids[1]), 0, call.ids[2],
                [time_weight |-> call.time_weight,
                 cost_weight |-> call.cost_weight]).nodes[call.ids[2]].cost

\* the weighted cost computed from the totals of the returned route
TotalsWeighted ==
    WeightedCost(ret.total_time, ret.total_cost,
                 call.time_weight, call.cost_weight)

\* the entry solve_tsp derives for the pair of the last call
PairCostEntry ==
    CostEntry(nodes, call.ids, 0, 1, call.time_weight, call.cost_weight)

\* the time and cost of every segment are the values calculate_travel_info
\* gives for the segment's endpoints and mode
SegmentsRecomputed ==
    \A k \in 1 .. Len(ret.segs) :
       \E t \in {calculate_travel_info(
                    calculate_distance(
                       NodeAt(nodes, ret.segs[k].from_node_id),
                       NodeAt(nodes, ret.segs[k].to_node_id)),
                    ret.segs[k].mode,
                    NodeAt(nodes, ret.segs[k].from_node_id),
                    NodeAt(nodes, ret.segs[k].to_node_id))} :
          /\ t.is_reachable
          /\ ret.segs[k].time_hours = t.time_hours
          /\ ret.segs[k].cost_yuan = t.cost_yuan

\* C24 as stated: for every route returned by find_shortest_path the
\* segments carry the values of the relaxation, and the weighted cost of
\* the route's totals equals the Dijkstra cost of the target and the
\* cost-matrix entry solve_tsp derives for the pair.
C24_TotalsMatchCostAndMatrix ==
    (FspValid /\ ~ ret.null) =>
        /\ SegmentsRecomputed
        /\ TotalsWeighted = TargetCost
        /\ TotalsWeighted = PairCostEntry

\* C24 amended: as stated, the equality with the cost-matrix entry holding
\* for the routes that have a segment.
C24_TotalsMatchCostAndMatrixOfLegs ==
    (FspValid /\ ~ ret.null) =>
        /\ SegmentsRecomputed
        /\ TotalsWeighted = TargetCost
        /\ ret.segs # << >> => TotalsWeighted = PairCostEntry

\* a route of two segments was returned under two positive weights
C24_Witness ==
    /\ FspValid
    /\ ~ ret.null
    /\ Len(ret.segs) >= 2
    /\ call.time_weight > 0
    /\ call.cost_weight > 0
    /\ TotalsWeighted > 0
    /\ TotalsWeighted = PairCostEntry

(***************************************************************************)
(* Contiguity of the tour across the splice points.                        *)
(***************************************************************************)
\* to(segment i) = from(segment i + 1) for all adjacent segments
ContiguousSegs(segs) ==
    \A i \in 1 .. (Len(segs) - 1) :
       segs[i].to_node_id = segs[i + 1].from_node_id

\* a stitch of solve_tsp has just joined a leg with segments to a
\* final_path with segments
TourSpliced ==
    /\ call.op = "tour"
    /\ pc = "tour_stitch"
    /\ work.stitched > 0
    /\ work.before_leg.segs # << >>
    /\ work.before_main.segs # << >>

\* C25: in every solve_tsp run that returns a route, the last segment of a
\* prepended leg ends at the node where the first segment of final_path
\* starts, final_path is contiguous after every stitch, and the returned
\* tour is contiguous.
C25_SplicesContiguous ==
    /\ TourSpliced =>
          work.before_leg.segs[Len(work.before_leg.segs)].to_node_id
             = work.before_main.segs[1].from_node_id
    /\ (call.op = "tour" /\ pc = "tour_stitch") =>
          ContiguousSegs(MainNow.segs)
    /\ (call.op = "tour" /\ pc = "returned" /\ ~ ret.null) =>
          ContiguousSegs(ret.segs)

\* the third stitch of a tour of three stops has joined a leg to a
\* final_path of two legs
C25_Witness ==
    /\ TourSpliced
    /\ work.stitched = 3
    /\ Len(MainNow.segs) >= 3
    /\ work.before_leg.segs[1].from_node_id
          # work.before_main.segs[1].from_node_id

(***************************************************************************)
(* The steps of find_shortest_path.                                        *)
(***************************************************************************)
\* the elements of a sequence
Range(seq) == {seq[k] : k \in 1 .. Len(seq)}

\* no element occurs twice
Distinct(seq) == Cardinality(Range(seq)) = Len(seq)

\* a call of find_shortest_path is between its validation and its return
InFsp == pc \in {"fsp_loop", "fsp_walk"}

\* the call has run its steps and returned
FspStepsReturned == pc = "returned" /\ call.op = "fsp" /\ "d" \in DOMAIN work

\* the main loop has run at most node_count iterations, each of which
\* marked a node that was not marked, had a finite cost and is not the
\* target
LoopBounded ==
    /\ work.i = Len(work.selected)
    /\ work.i <= NodeCount(nodes)
    /\ Distinct(work.selected)
    /\ Range(work.selected) = {v \in NodeIds(nodes) : work.d.visited[v]}
    /\ call.ids[2] \notin Range(work.selected)
    /\ \A v \in Range(work.selected) : work.d.nodes[v].cost < DBL_MAX

\* the loop has ended with the target selected or with no unvisited node
\* of finite cost
LoopEnded ==
    \/ SelectMin(nodes, work.d) = call.ids[2]
    \/ \A v \in NodeIds(nodes) :
          work.d.visited[v] \/ work.d.nodes[v].cost = DBL_MAX

\* the walk has left no node twice and is not at a node it has left
WalkSimple ==
    /\ Distinct(work.walked)
    /\ work.current \notin Range(work.walked)
    /\ Len(work.walked) < NodeCount(nodes)

\* the safety part of C26
FspStepsBounded ==
    /\ (InFsp \/ FspStepsReturned) => LoopBounded /\ WalkSimple
    /\ (pc = "fsp_walk" \/ FspStepsReturned) => LoopEnded
    /\ (FspStepsReturned /\ ~ ret.null) => work.current = call.ids[1]

\* C26: find_shortest_path always terminates: the main loop runs at most
\* node_count iterations, each marking a distinct node visited, and stops
\* as soon as the target is selected or no unvisited node has a finite
\* cost; the predecessor walk visits no node twice and reaches start; and
\* every call that has started returns.
C26_Terminates ==
    /\ [] FspStepsBounded
    /\ (pc = "fsp_loop") ~> (pc = "returned")

\* a call has returned a route of two segments after two iterations of the
\* main loop and two of the walk
C26_Witness ==
    /\ FspStepsReturned
    /\ ~ ret.null
    /\ work.i = 2
    /\ Len(work.walked) = 2
    /\ Len(ret.segs) = 2

\* the weighted cost of the edge (p, v) by the mode, under the weights of
\* the call in progress
EdgeWeight(p, v, mode) ==
    Bind(calculate_travel_info(
            calculate_distance(NodeAt(nodes, p), NodeAt(nodes, v)),
            mode, NodeAt(nodes, p), NodeAt(nodes, v)),
         LAMBDA t : WeightedCost(t.time_hours, t.cost_yuan,
                                 call.time_weight, call.cost_weight))

\* start has no predecessor, and every other node of finite tentative cost
\* has a visited predecessor p with cost[v] = cost[p] + weight(p, v, mode)
PredecessorsConsistent ==
    /\ work.d.nodes[call.ids[1]].predecessor_node_id = -1
    /\ \A v \in NodeIds(nodes) \ {call.ids[1]} :
          work.d.nodes[v].cost < DBL_MAX =>
             \E p \in {work.d.nodes[v].predecessor_node_id} :
                /\ p \in NodeIds(nodes)
                /\ work.d.visited[p]
                /\ work.d.nodes[v].cost
                      = work.d.nodes[p].cost
                        + EdgeWeight(p, v, work.d.nodes[v].predecessor_mode)

\* a step of the main loop leaves the entries of the visited nodes as they
\* are, and no node becomes unvisited
VisitedFrozen ==
    (pc = "fsp_loop" /\ pc' \in {"fsp_loop", "fsp_walk", "returned"}) =>
        \A v \in NodeIds(nodes) :
           work.d.visited[v] =>
              /\ work'.d.visited[v]
              /\ work'.d.nodes[v] = work.d.nodes[v]

\* C29: at every step of the main loop of find_shortest_path, with weights
\* that are not negative, the start node's predecessor is -1, every other
\* node of finite tentative cost has an already visited predecessor p with
\* cost[v] = cost[p] + weight(p, v, predecessor_mode), and the cost and the
\* predecessor of a visited node never change afterwards.
C29_LoopInvariant ==
    /\ [] (InFsp => PredecessorsConsistent)
    /\ [][VisitedFrozen]_vars

\* after two iterations a node has a finite cost through a predecessor
\* that is not the start node
C29_Witness ==
    /\ pc = "fsp_loop"
    /\ work.i = 2
    /\ \E v \in NodeIds(nodes) :
          /\ work.d.nodes[v].cost < DBL_MAX
          /\ ~ work.d.visited[v]
          /\ work.d.nodes[v].predecessor_node_id \notin {-1, call.ids[1]}

(***************************************************************************)
(* The pairs of nodes 0.1 km apart or less.                                *)
(***************************************************************************)
\* C27: no segment of a route returned by find_shortest_path joins two
\* nodes 0.1 km apart or less, and for two distinct nodes that legal edges
\* join only through such a pair the call returns NULL.
C27_CloseNodesNeverJoined ==
    /\ (FspValid /\ ~ ret.null) =>
          \A k \in 1 .. Len(ret.segs) :
             /\ ret.segs[k].distance_km > 1
             /\ FarApart(ret.segs[k].from_node_id, ret.segs[k].to_node_id)
    /\ (/\ FspValid
        /\ call.ids[1] # call.ids[2]
        /\ Connected(call.ids[1], call.ids[2], FALSE)
        /\ ~ Connected(call.ids[1], call.ids[2], TRUE)) => ret.null

\* NULL was returned for two nodes 0.1 km apart that DRIVING joins, in a
\* graph of three nodes
C27_Witness ==
    /\ FspValid
    /\ ret.null
    /\ NodeCount(nodes) = 3
    /\ call.ids[1] # call.ids[2]
    /\ ~ FarApart(call.ids[1], call.ids[2])
    /\ DRIVING \in LegalModes(call.ids[1], call.ids[2])

(***************************************************************************)
(* The sentinel entries of solve_tsp's cost matrix.                        *)
(***************************************************************************)
\* solve_tsp has built its tables for the list of the call
TourTablesBuilt ==
    /\ call.op = "tour"
    /\ pc \in {"tour_stitch", "returned"}
    /\ ~ TspRejects(Len(call.ids))

\* the list positions of the call
Positions == 0 .. (Len(call.ids) - 1)

\* the route find_shortest_path returns for the list positions i and j
PairRoute(i, j) ==
    find_shortest_path(nodes, IdAt(call.ids, i), IdAt(call.ids, j),
                       call.time_weight, call.cost_weight)

\* an entry for i # j is DBL_MAX exactly when the pair has no route or a
\* route of zero distance
SentinelEntries(cm) ==
    \A i \in Positions : \A j \in Positions \ {i} :
       \E p \in {PairRoute(i, j)} :
          /\ (p.null \/ p.total_distance = 0) => cm[i][j] = DBL_MAX
          /\ (~ p.null /\ p.total_distance > 0) => cm[i][j] < DBL_MAX
          /\ IdAt(call.ids, i) = IdAt(call.ids, j) => cm[i][j] = DBL_MAX

\* every finite cell of dp_table other than dp_table[1][0] was written
\* through a finite cell and a finite entry of the cost matrix
FiniteThroughFinite(cm, t) ==
    \A mask \in 1 .. (Pow2(Len(call.ids)) - 1), v \in Positions :
       (t.dp[mask][v] < DBL_MAX /\ ~ (mask = 1 /\ v = 0)) =>
          \E u \in {t.path[mask][v]} :
             /\ u \in Positions \ {v}
             /\ InMask(mask, v)
             /\ cm[u][v] < DBL_MAX
             /\ t.dp[mask - Pow2(v)][u] < DBL_MAX
             /\ t.dp[mask][v] = t.dp[mask - Pow2(v)][u] + cm[u][v]

\* C28: in solve_tsp's cost matrix an ordered pair i # j has the entry
\* DBL_MAX whenever find_shortest_path gives no route or a route of zero
\* distance, so two list positions naming one node have no edge and
\* solve_tsp([a, a]) returns NULL; and no finite value of dp_table comes
\* through a DBL_MAX entry.
C28_SentinelEntries ==
    TourTablesBuilt =>
       \E cm \in {CostMatrix(nodes, call.ids, Len(call.ids),
                             call.time_weight, call.cost_weight)} :
          /\ SentinelEntries(cm)
          /\ FiniteThroughFinite(cm, HeldKarp(Len(call.ids), cm))
          /\ (Len(call.ids) = 2 /\ call.ids[1] = call.ids[2]) =>
                (pc = "returned" /\ ret.null)

\* solve_tsp was called with three stops of which one has no route to
\* another, and dp_table has a finite cell for two stops
C28_Witness ==
    /\ TourTablesBuilt
    /\ Len(call.ids) = 3
    /\ \E i \in Positions : \E j \in Positions \ {i} :
          /\ IdAt(call.ids, i) # IdAt(call.ids, j)
          /\ PairRoute(i, j).null
    /\ \E v \in Positions \ {0} :
          HeldKarp(3, CostMatrix(nodes, call.ids, 3, call.time_weight,
                                 call.cost_weight)).dp[1 + Pow2(v)][v]
             < DBL_MAX
    /\ ret.null

(***************************************************************************)
(* The working buffers of solve_tsp at its returns.                        *)
(***************************************************************************)
\* solve_tsp has returned after the copy of the id list was allocated
TspReturnedAfterAlloc ==
    /\ call.op = "tsp"
    /\ pc = "returned"
    /\ ~ TspRejects(Len(call.ids))

\* C30: on every return of solve_tsp taken after its working buffers were
\* allocated (the copied id list, the cost matrix, the dp table and the
\* backpointer table), the return of NULL when no closing city is finite
\* included, all of those buffers have been released.
C30_BuffersReleased ==
    TspReturnedAfterAlloc => stats.leaked = {}

\* solve_tsp returned NULL because no closing city was found, and the four
\* buffers are still allocated
C30_FailingReturn ==
    /\ TspReturnedAfterAlloc
    /\ ret.null
    /\ ChooseTourEnd(HeldKarp(Len(call.ids), stats.cost_matrix),
                     Len(call.ids), stats.cost_matrix).tour_end_city = -1
    /\ stats.leaked = TspBuffers

====
